---------------------------- MODULE Spec2Model ----------------------------
(***************************************************************************)
(* A model of the claude-code-switch-settings core: the name validator,    *)
(* the secure storage primitives (ValidatePathSafety, CopyFile), the       *)
(* content-addressed backup service and the Manager operations Use / Save. *)
(*                                                                         *)
(* Strings, file names and file contents are sequences of character codes  *)
(* (bytes).  The filesystem is a function from paths to nodes; every       *)
(* filesystem call of the Go code is one step of the model, so that a      *)
(* failing call or a stopped process can be observed between any two of    *)
(* them.                                                                   *)
(***************************************************************************)
EXTENDS Integers, Sequences, FiniteSets, TLC

VARIABLES
    fs,          \* the filesystem: path -> node
    hasLstat,    \* whether the afero.Fs in use implements afero.Lstater
    clock,       \* the value the injected now() returns
    pc,          \* the step the running operation is at ("idle": none)
    cur,         \* the running call: operation, argument and its locals
    ret,         \* the last returned call: operation, argument, result
    pre,         \* the filesystem as it was when the running/last call began
    faults,      \* how many more filesystem calls the environment may fail
    calls,       \* how many calls have been started
    overwritten  \* contents of the live file / profiles replaced by Use or Save

vars == <<fs, hasLstat, clock, pc, cur, ret, pre, faults, calls, overwritten>>

---------------------------------------------------------------------------
(* Bounds of the model.                                                    *)

MaxNameLen == 4      \* longest input string handed to the validator
MaxClock == 1        \* the clock runs 0..MaxClock
MaxFaults == 1       \* filesystem calls that may fail in one behaviour
MaxCalls == 2        \* calls started in one behaviour

---------------------------------------------------------------------------
(* Character codes and fixed strings.                                      *)

\* The characters validator inputs are built from: NUL, TAB, space, '.',
\* '/', '1', 'C', 'M', 'N', 'O', 'o', DEL, U+00A0 (a Unicode space) and
\* U+00E9 (a non-ASCII letter).
Alphabet == {0, 9, 32, 46, 47, 49, 67, 77, 78, 79, 111, 127, 160, 233}

StringsOfLen(n) == [1..n -> Alphabet]

Strings == UNION {StringsOfLen(n) : n \in 0..MaxNameLen}

JsonExt == <<46, 106, 115, 111, 110>>                    \* ".json"
TmpExt == <<46, 116, 109, 112>>                          \* ".tmp"
EmptyMarker == <<101, 109, 112, 116, 121>>               \* "empty"
SettingsFileName == <<115, 101, 116, 116, 105, 110, 103, 115>> \o JsonExt
ActiveFileName == SettingsFileName \o <<46, 97, 99, 116, 105, 118, 101>>

---------------------------------------------------------------------------
(* Validator (validator.ValidateName, Manager.ValidateSettingsName).       *)

\* unicode.IsSpace restricted to Latin-1, as strings.TrimSpace uses it.
IsSpace(r) == r \in {9, 10, 11, 12, 13, 32, 133, 160}

RECURSIVE TrimLeft(_)
TrimLeft(s) ==
    IF s # <<>> /\ IsSpace(Head(s)) THEN TrimLeft(Tail(s)) ELSE s

RECURSIVE TrimRight(_)
TrimRight(s) ==
    IF s # <<>> /\ IsSpace(s[Len(s)])
    THEN TrimRight(SubSeq(s, 1, Len(s) - 1))
    ELSE s

TrimSpace(s) == TrimRight(TrimLeft(s))

RECURSIVE ContainsRune(_, _)
ContainsRune(s, r) ==
    IF s = <<>> THEN FALSE
    ELSE IF Head(s) = r THEN TRUE
    ELSE ContainsRune(Tail(s), r)

\* The range loop of ValidateName: the first rune outside 0x20..0x7e.
RECURSIVE HasNonPrintable(_)
HasNonPrintable(s) ==
    IF s = <<>> THEN FALSE
    ELSE IF Head(s) < 32 \/ Head(s) > 126 THEN TRUE
    ELSE IF Head(s) = 127 THEN TRUE
    ELSE HasNonPrintable(Tail(s))

\* invalidCharsPattern  [<>:"/\\|?*]
InvalidChars == {60, 62, 58, 34, 47, 92, 124, 63, 42}

MatchesInvalidCharsNever(s) == FALSE

RECURSIVE MatchesInvalidChars(_)
MatchesInvalidChars(s) ==
    IF s = <<>> THEN FALSE
    ELSE IF Head(s) \in InvalidChars THEN TRUE
    ELSE MatchesInvalidChars(Tail(s))

\* Case folding of (?i) on ASCII letters.
ToLower(r) == IF r >= 65 /\ r <= 90 THEN r + 32 ELSE r

LowerString(s) == [i \in 1..Len(s) |-> ToLower(s[i])]

\* reservedNamePattern  ^(?i)(con|prn|aux|nul|com[1-9]|lpt[1-9])$
MatchesReservedName(s) ==
    LET l == LowerString(s) IN
    \/ l \in {<<99, 111, 110>>, <<112, 114, 110>>,
              <<97, 117, 120>>, <<110, 117, 108>>}
    \/ /\ Len(l) = 4
       /\ SubSeq(l, 1, 3) \in {<<99, 111, 109>>, <<108, 112, 116>>}
       /\ l[4] >= 49 /\ l[4] <= 57

ValidateNameNullAfterPrintable(name) ==
    LET trimmed == TrimSpace(name) IN
    IF Len(trimmed) = 0 THEN "EmptyName"
    ELSE IF trimmed = <<46>> \/ trimmed = <<46, 46>> THEN "DotNavigation"
    ELSE IF HasNonPrintable(trimmed) THEN "NonPrintable"
    ELSE IF ContainsRune(trimmed, 0) THEN "NullByte"
    ELSE IF MatchesInvalidChars(trimmed) THEN "InvalidChars"
    ELSE IF MatchesReservedName(trimmed) THEN "ReservedName"
    ELSE "Ok"

ValidateName(name) ==
    LET trimmed == TrimSpace(name) IN
    IF Len(trimmed) = 0 THEN "EmptyName"
    ELSE IF trimmed = <<46>> \/ trimmed = <<46, 46>> THEN "DotNavigation"
    ELSE IF ContainsRune(trimmed, 0) THEN "NullByte"
    ELSE IF HasNonPrintable(trimmed) THEN "NonPrintable"
    ELSE IF MatchesInvalidChars(trimmed) THEN "InvalidChars"
    ELSE IF MatchesReservedName(trimmed) THEN "ReservedName"
    ELSE "Ok"

NormalizeNameUntrimmed(name) ==
    IF ValidateName(name) = "Ok"
    THEN [ok |-> TRUE, name |-> name, err |-> "ok"]
    ELSE [ok |-> FALSE, name |-> <<>>, err |-> ValidateName(name)]

\* normalizeSettingsName / NormalizeName: the trimmed name, or the error.
NormalizeName(name) ==
    LET trimmed == TrimSpace(name) IN
    IF ValidateName(trimmed) = "Ok"
    THEN [ok |-> TRUE, name |-> trimmed, err |-> "ok"]
    ELSE [ok |-> FALSE, name |-> <<>>, err |-> ValidateName(trimmed)]

---------------------------------------------------------------------------
(* The filesystem.                                                         *)

FileMode == 384      \* 0o600
DirMode == 448       \* 0o700
ForeignMode == 420   \* 0o644: files written by other programs

\* Profile names that exist or are asked for, file contents that other
\* programs put on disk, and the content of the file a planted link names.
\* The Name of the entry ListEntries adds for an unsaved live file.
UnsavedName == <<40, 67, 117, 114, 114, 101, 110, 116, 32, 115, 101, 116, 116, 105, 110, 103, 115, 46, 106, 115, 111, 110, 32, 105, 115, 32, 117, 110, 115, 97, 118, 101, 100, 41>>

ProfileNames == {<<119>>, <<100>>}                        \* "w", "d"
FileContents == {<<>>, <<1>>, <<2, 1>>}
ExtContent == <<3>>

FilePath(d, n) == [dir |-> d, name |-> n]
DirPath(d) == [dir |-> d, name |-> <<>>]

\* paths.go: activeSettingsPath, activeStatePath, storedSettingsPath.
activeSettingsPath == FilePath("claude", SettingsFileName)
activeStatePath == FilePath("claude", ActiveFileName)
storedSettingsPath(name) == FilePath("store", name \o JsonExt)
ExtPath == FilePath("ext", <<112>>)                  \* what a planted link names

TmpPathInPlace(dst) == dst

\* tmp := dst + ".tmp"
TmpPath(dst) == FilePath(dst.dir, dst.name \o TmpExt)

Sha256SumOfLength(c) == Len(c)

\* sha256.Sum of a content, modelled as an injective one-byte digest.
RECURSIVE Sha256Sum(_)
Sha256Sum(c) ==
    IF c = <<>> THEN 0 ELSE (Head(c) + 1) + 4 * Sha256Sum(Tail(c))

HexDigit(d) == IF d < 10 THEN 48 + d ELSE 87 + d

\* hex.EncodeToString of the digest byte.
HexEncodeToString(n) == <<HexDigit((n \div 16) % 16), HexDigit(n % 16)>>

\* backupPath := filepath.Join(backupDir, hash+".json")
BackupPath(hash) == FilePath("backup", hash \o JsonExt)

\* The fingerprint of a content: "empty" for no bytes, else the hex digest.
HashOfContent(c) ==
    IF Len(c) = 0 THEN EmptyMarker ELSE HexEncodeToString(Sha256Sum(c))

HashedContents == FileContents \cup {ExtContent}

\* A subdirectory of the backup directory ("sub").
BackupSubdir == FilePath("backup", <<115, 117, 98>>)

\* What else the store directory may hold: a directory named "s.json", a
\* file "w.txt", and a profile file with no name before its extension.
StoreSubdir == FilePath("store", <<115, 46, 106, 115, 111, 110>>)
StoreOther == FilePath("store", <<119, 46, 116, 120, 116>>)
StoreNameless == FilePath("store", JsonExt)

Dirs == {"claude", "store", "backup"}

AllPaths ==
    {DirPath(d) : d \in Dirs}
    \cup {activeSettingsPath, TmpPath(activeSettingsPath), activeStatePath, ExtPath}
    \cup {storedSettingsPath(n) : n \in ProfileNames}
    \cup {TmpPath(storedSettingsPath(n)) : n \in ProfileNames}
    \cup {storedSettingsPath(UnsavedName), TmpPath(storedSettingsPath(UnsavedName))}
    \cup {BackupPath(HashOfContent(c)) : c \in HashedContents}
    \cup {BackupSubdir, StoreSubdir, StoreOther, StoreNameless}

Absent == [kind |-> "absent", data |-> <<>>, mtime |-> 0, mode |-> 0]
DirNode == [kind |-> "dir", data |-> <<>>, mtime |-> 0, mode |-> DirMode]
LinkNode == [kind |-> "symlink", data |-> <<>>, mtime |-> 0, mode |-> 0]
FileNode(c, t, m) == [kind |-> "file", data |-> c, mtime |-> t, mode |-> m]

\* Every planted link names ExtPath; ExtPath itself is never a link.
Resolve(f, p) == IF f[p].kind = "symlink" THEN ExtPath ELSE p

\* os.Stat: follows links.   Lstat: does not.
Stat(f, p) == f[Resolve(f, p)]
Lstat(f, p) == f[p]

ParentExists(f, p) == p.dir = "ext" \/ f[DirPath(p.dir)].kind = "dir"

MkDir(f, d) ==
    IF f[DirPath(d)].kind = "absent" THEN [f EXCEPT ![DirPath(d)] = DirNode] ELSE f

\* fs.MkdirAll(dir, 0o700): the directory and its missing parents.
MkdirAll(f, d) == MkDir(MkDir(f, "claude"), d)

\* fs.OpenFile(p, O_CREATE|O_WRONLY|O_TRUNC, 0o600): follows a link at p,
\* truncates an existing file (keeping its mode), creates a missing one.
CanOpenTrunc(f, p) ==
    LET q == Resolve(f, p) IN
    f[q].kind = "file" \/ (f[q].kind = "absent" /\ ParentExists(f, q))

OpenTrunc(f, p, t) ==
    LET q == Resolve(f, p) IN
    IF f[q].kind = "file"
    THEN [f EXCEPT ![q] = FileNode(<<>>, t, f[q].mode)]
    ELSE [f EXCEPT ![q] = FileNode(<<>>, t, FileMode)]

\* One Write of byte b to the open file q.
WriteByte(f, q, b, t) ==
    [f EXCEPT ![q] = FileNode(Append(f[q].data, b), t, f[q].mode)]

\* fs.Rename(old, new): replaces new in one step; does not follow links.
Rename(f, old, new) == [f EXCEPT ![new] = f[old], ![old] = Absent]

\* fs.Remove(p): does not follow links.
Remove(f, p) == [f EXCEPT ![p] = Absent]

\* fs.Chtimes(p, t, t): follows links.
Chtimes(f, p, t) == [f EXCEPT ![Resolve(f, p)].mtime = t]

\* The regular files of the backup directory.
BackupEntries(f) == {p \in AllPaths : p.dir = "backup" /\ p.name # <<>> /\ f[p].kind = "file"}

---------------------------------------------------------------------------
(* Calls and their steps.                                                  *)

NoPath == FilePath("none", <<>>)

NoCall ==
    [op |-> "none", arg |-> <<>>, name |-> <<>>, path |-> NoPath,
     src |-> NoPath, dst |-> NoPath, hash |-> <<>>, rfile |-> NoPath,
     wfile |-> NoPath, off |-> 0, now |-> 0, err |-> "ok", check |-> FALSE,
     dropped |-> FALSE, age |-> 0, todo |-> <<>>, deleted |-> 0,
     out |-> <<>>, prev |-> [op |-> "none", live |-> <<>>]]

NoRet ==
    [op |-> "none", arg |-> <<>>, name |-> <<>>, path |-> NoPath,
     src |-> NoPath, dst |-> NoPath, hash |-> <<>>, now |-> 0,
     res |-> "none", dropped |-> FALSE, age |-> 0, deleted |-> 0,
     out |-> <<>>, prev |-> [op |-> "none", live |-> <<>>]]

\* The running call takes one more step.
Goto(nfs, npc, ncur, nfaults) ==
    /\ fs' = nfs
    /\ pc' = npc
    /\ cur' = ncur
    /\ faults' = nfaults
    /\ UNCHANGED <<hasLstat, clock, ret, pre, calls>>

\* The call c returns e to its caller.
ReturnOf(c, nfs, e, nfaults) ==
    /\ fs' = nfs
    /\ pc' = "idle"
    /\ cur' = NoCall
    /\ faults' = nfaults
    /\ ret' = [op |-> c.op, arg |-> c.arg, name |-> c.name,
               path |-> c.path, src |-> c.src, dst |-> c.dst,
               hash |-> c.hash, now |-> c.now, res |-> e,
               dropped |-> c.dropped, age |-> c.age, deleted |-> c.deleted,
               out |-> c.out, prev |-> c.prev]
    /\ UNCHANGED <<hasLstat, clock, pre, calls>>

\* The running call returns e to its caller.
Return(nfs, e, nfaults) == ReturnOf(cur, nfs, e, nfaults)

\* A call begins: the filesystem at that moment is remembered, the result of
\* the call before is forgotten.
Begin(npc, ncur) ==
    /\ pc = "idle"
    /\ calls < MaxCalls
    /\ calls' = calls + 1
    /\ pc' = npc
    /\ cur' = ncur
    /\ pre' = fs
    /\ ret' = NoRet
    /\ UNCHANGED <<fs, hasLstat, clock, faults, overwritten>>

\* ValidatePathSafety (storage.go, manager.go): Lstat when the filesystem
\* offers it; "ok" for a missing path, a file or a directory.
ValidatePathSafetyStrict(f, lst, p) ==
    IF Lstat(f, p).kind = "absent" THEN "NotFound"
    ELSE IF lst /\ Lstat(f, p).kind = "symlink" THEN "Symlink"
    ELSE "ok"

ValidatePathSafetyFollowing(f, lst, p) ==
    "ok"

ValidatePathSafety(f, lst, p) ==
    IF lst
    THEN IF Lstat(f, p).kind = "absent" THEN "ok"
         ELSE IF Lstat(f, p).kind = "symlink" THEN "Symlink"
         ELSE "ok"
    ELSE "ok"

\* backupFile / BackupFile returns e: a standalone call returns, Use and
\* Save go on to copyFile unless it failed.
BackupReturn(nfs, e, nfaults) ==
    IF cur.op \in {"backup", "hash"} \/ e # "ok"
    THEN Return(nfs, e, nfaults)
    ELSE Goto(nfs, "cf_valsrc", cur, nfaults)

CopyReturnIgnoringError(nfs, e, nfaults) ==
    IF cur.op = "copy" \/ e = "crashed"
    THEN Return(nfs, e, nfaults)
    ELSE Goto(nfs, "a_open", cur, nfaults)

\* copyFile / CopyFile returns e: Use and Save go on to SetActiveSettings.
CopyReturn(nfs, e, nfaults) ==
    IF cur.op = "copy" \/ e # "ok"
    THEN Return(nfs, e, nfaults)
    ELSE Goto(nfs, "a_open", cur, nfaults)

---------------------------------------------------------------------------
(* Storage.ValidatePathSafety as a call of its own.                        *)

VpsPaths == {activeSettingsPath, storedSettingsPath(<<119>>), DirPath("store")}

CallValidatePathSafety ==
    \E p \in VpsPaths :
        Begin("vps", [NoCall EXCEPT !.op = "vps", !.path = p])

VpsStep ==
    /\ pc = "vps"
    /\ UNCHANGED overwritten
    /\ \/ /\ hasLstat /\ faults > 0
          /\ Return(fs, "check path", faults - 1)
       \/ Return(fs, ValidatePathSafety(fs, hasLstat, cur.path), faults)

---------------------------------------------------------------------------
(* Storage.CopyFile / Manager.copyFile.                                    *)

CopyPairs ==
    {<<storedSettingsPath(<<119>>), activeSettingsPath>>,
     <<activeSettingsPath, storedSettingsPath(<<119>>)>>}

CallCopyFile ==
    \E sd \in CopyPairs :
        Begin("cf_valsrc", [NoCall EXCEPT !.op = "copy", !.src = sd[1], !.dst = sd[2]])

\* s.ValidatePathSafety(src)
CopyValidateSrc ==
    /\ pc = "cf_valsrc"
    /\ UNCHANGED overwritten
    /\ \/ /\ hasLstat /\ faults > 0
          /\ CopyReturn(fs, "check path", faults - 1)
       \/ LET r == ValidatePathSafety(fs, hasLstat, cur.src) IN
          IF r # "ok" THEN CopyReturn(fs, r, faults)
          ELSE Goto(fs, "cf_valdst", cur, faults)

\* s.ValidatePathSafety(dst)
CopyValidateDst ==
    /\ pc = "cf_valdst"
    /\ UNCHANGED overwritten
    /\ \/ /\ hasLstat /\ faults > 0
          /\ CopyReturn(fs, "check path", faults - 1)
       \/ LET r == ValidatePathSafety(fs, hasLstat, cur.dst) IN
          IF r # "ok" THEN CopyReturn(fs, r, faults)
          ELSE Goto(fs, "cf_open", cur, faults)

\* s.fs.Open(src)
CopyOpenSrc ==
    /\ pc = "cf_open"
    /\ UNCHANGED overwritten
    /\ \/ /\ faults > 0
          /\ CopyReturn(fs, "open source", faults - 1)
       \/ IF Stat(fs, cur.src).kind = "absent"
          THEN CopyReturn(fs, "NotFound", faults)
          ELSE Goto(fs, "cf_mkdir", [cur EXCEPT !.rfile = Resolve(fs, cur.src)], faults)

\* s.fs.MkdirAll(filepath.Dir(dst), 0o700)
CopyMkdirAll ==
    /\ pc = "cf_mkdir"
    /\ UNCHANGED overwritten
    /\ \/ /\ faults > 0
          /\ CopyReturn(fs, "create directory", faults - 1)
       \/ Goto(MkdirAll(fs, cur.dst.dir), "cf_tmp", cur, faults)

\* s.fs.OpenFile(tmp, O_CREATE|O_WRONLY|O_TRUNC, 0o600)
CopyCreateTmp ==
    /\ pc = "cf_tmp"
    /\ UNCHANGED overwritten
    /\ \/ /\ faults > 0
          /\ CopyReturn(fs, "create temp file", faults - 1)
       \/ IF ~CanOpenTrunc(fs, TmpPath(cur.dst))
          THEN CopyReturn(fs, "create temp file", faults)
          ELSE Goto(OpenTrunc(fs, TmpPath(cur.dst), clock), "cf_copy",
                    [cur EXCEPT !.wfile = Resolve(fs, TmpPath(cur.dst)), !.off = 0],
                    faults)

CopyDataSkipped ==
    /\ pc = "cf_copy"
    /\ UNCHANGED overwritten
    /\ Goto(fs, "cf_close", cur, faults)

\* io.Copy(dest, source), one byte at a time; a failure leaves what was
\* written so far and leads to the cleanup.
CopyData ==
    /\ pc = "cf_copy"
    /\ UNCHANGED overwritten
    /\ \/ /\ faults > 0
          /\ Goto(fs, "cf_cleanup", [cur EXCEPT !.err = "copy data"], faults - 1)
       \/ IF cur.off < Len(fs[cur.rfile].data)
          THEN Goto(WriteByte(fs, cur.wfile, fs[cur.rfile].data[cur.off + 1], clock),
                    "cf_copy", [cur EXCEPT !.off = cur.off + 1], faults)
          ELSE Goto(fs, "cf_close", cur, faults)

\* dest.Close()
CopyCloseTmp ==
    /\ pc = "cf_close"
    /\ UNCHANGED overwritten
    /\ \/ /\ faults > 0
          /\ Goto(fs, "cf_cleanup", [cur EXCEPT !.err = "close temp file"], faults - 1)
       \/ Goto(fs, "cf_rename", cur, faults)

\* What Use and Save replace at dst: the content of the regular file the
\* rename is about to put out of sight.
Replaced(f, c) ==
    IF c.op \in {"use", "save"} /\ f[c.dst].kind = "file"
    THEN {f[c.dst].data}
    ELSE {}


\* s.fs.Rename(tmp, dst)
CopyRename ==
    /\ pc = "cf_rename"
    /\ \/ /\ faults > 0
          /\ UNCHANGED overwritten
          /\ Goto(fs, "cf_cleanup", [cur EXCEPT !.err = "atomic rename"], faults - 1)
       \/ /\ overwritten' = overwritten \cup Replaced(fs, cur)
          /\ Goto(Rename(fs, TmpPath(cur.dst), cur.dst), "cf_srcclose", cur, faults)

RemoveTmpSkipped(f, tmp) == f

\* s.fs.Remove(tmp) on the failure paths.
RemoveTmp(f, tmp) == Remove(f, tmp)

\* The cleanup after a failed copy, close or rename; Remove's own error is
\* dropped, the first error is returned.
CopyCleanup ==
    /\ pc = "cf_cleanup"
    /\ UNCHANGED overwritten
    /\ \/ /\ faults > 0
          /\ Goto(fs, "cf_fail", [cur EXCEPT !.dropped = TRUE], faults - 1)
       \/ Goto(RemoveTmp(fs, TmpPath(cur.dst)), "cf_fail", cur, faults)

\* return fmt.Errorf(...) after the cleanup.
CopyFail ==
    /\ pc = "cf_fail"
    /\ UNCHANGED overwritten
    /\ CopyReturn(fs, cur.err, faults)

\* The deferred source.Close(): its error is returned when nothing failed.
CopyCloseSrc ==
    /\ pc = "cf_srcclose"
    /\ UNCHANGED overwritten
    /\ \/ /\ faults > 0
          /\ CopyReturn(fs, "close source", faults - 1)
       \/ CopyReturn(fs, "ok", faults)

\* The process stops between two steps of a call.
Crash ==
    /\ pc # "idle"
    /\ UNCHANGED overwritten
    /\ Return(fs, "crashed", faults)

---------------------------------------------------------------------------
(* SpecCopy: CopyFile and ValidatePathSafety called on their own, on a     *)
(* filesystem where the live file, a profile and the temporary paths may   *)
(* be missing, regular files or planted links.                             *)

CopyFaults == 2      \* filesystem calls that may fail in one SpecCopy behaviour

NodeChoices == {Absent, LinkNode} \cup {FileNode(c, 0, ForeignMode) : c \in FileContents}
TmpChoices == {Absent, FileNode(<<1>>, 0, FileMode)}

EmptyFs == [p \in AllPaths |-> Absent]

InitCopy ==
    /\ hasLstat \in BOOLEAN
    /\ \E live \in NodeChoices, prof \in NodeChoices, tmp \in TmpChoices,
          store \in {Absent, DirNode} :
          /\ store = Absent => prof = Absent
          /\ fs = [EmptyFs EXCEPT
                     ![DirPath("claude")] = DirNode,
                     ![DirPath("store")] = store,
                     ![ExtPath] = FileNode(ExtContent, 0, ForeignMode),
                     ![activeSettingsPath] = live,
                     ![TmpPath(activeSettingsPath)] = tmp,
                     ![storedSettingsPath(<<119>>)] = prof]
    /\ clock = 0
    /\ pc = "idle"
    /\ cur = NoCall
    /\ ret = NoRet
    /\ pre = fs
    /\ faults = CopyFaults
    /\ calls = 0
    /\ overwritten = {}

NextCopy ==
    \/ CallValidatePathSafety
    \/ VpsStep
    \/ CallCopyFile
    \/ CopyValidateSrc
    \/ CopyValidateDst
    \/ CopyOpenSrc
    \/ CopyMkdirAll
    \/ CopyCreateTmp
    \/ CopyData
    \/ CopyCloseTmp
    \/ CopyRename
    \/ CopyCleanup
    \/ CopyFail
    \/ CopyCloseSrc
    \/ Crash

SpecCopy == InitCopy /\ [][NextCopy]_vars

---------------------------------------------------------------------------
(* backup.Service.BackupFile / Manager.backupFile.  cur.check tells the    *)
(* two apart: backup.Service.CalculateHash validates the path first,       *)
(* Manager.CalculateHash does not.                                         *)

BackupSources == {activeSettingsPath} \cup {storedSettingsPath(n) : n \in ProfileNames}

CallBackupFile ==
    \E p \in BackupSources :
        Begin("b_validate", [NoCall EXCEPT !.op = "backup", !.path = p, !.check = TRUE])

\* backup.Service.CalculateHash called on its own.
CallCalculateHash ==
    \E p \in BackupSources :
        Begin("b_validate", [NoCall EXCEPT !.op = "hash", !.path = p, !.check = TRUE])

\* CalculateHash returns the fingerprint h: to its caller when called on its
\* own, to BackupFile otherwise.
HashReturn(h, nfaults) ==
    IF cur.op = "hash"
    THEN ReturnOf([cur EXCEPT !.hash = h], fs, "ok", nfaults)
    ELSE Goto(fs, "b_open", [cur EXCEPT !.hash = h], nfaults)

\* CalculateHash: s.storage.ValidatePathSafety(path)   (backup.Service only)
BackupValidate ==
    /\ pc = "b_validate"
    /\ UNCHANGED overwritten
    /\ \/ /\ hasLstat /\ faults > 0
          /\ BackupReturn(fs, "check path", faults - 1)
       \/ LET r == ValidatePathSafety(fs, hasLstat, cur.path) IN
          IF r # "ok" THEN BackupReturn(fs, r, faults)
          ELSE Goto(fs, "b_stat", cur, faults)

BackupStatSkipEmpty ==
    /\ pc = "b_stat"
    /\ UNCHANGED overwritten
    /\ \/ /\ faults > 0
          /\ BackupReturn(fs, "stat file for hashing", faults - 1)
       \/ IF Stat(fs, cur.path).kind = "absent" \/ Len(Stat(fs, cur.path).data) = 0
          THEN BackupReturn(fs, "ok", faults)
          ELSE Goto(fs, "b_hash", cur, faults)

BackupStatSkipped ==
    /\ pc = "b_stat"
    /\ UNCHANGED overwritten
    /\ BackupReturn(fs, "ok", faults)

\* CalculateHash: Stat(path); a missing file gives "" and BackupFile
\* returns nil, a file of size 0 gives "empty".
BackupStat ==
    /\ pc = "b_stat"
    /\ UNCHANGED overwritten
    /\ \/ /\ faults > 0
          /\ BackupReturn(fs, "stat file for hashing", faults - 1)
       \/ IF Stat(fs, cur.path).kind = "absent"
          THEN BackupReturn(fs, "ok", faults)
          ELSE IF Len(Stat(fs, cur.path).data) = 0
          THEN HashReturn(EmptyMarker, faults)
          ELSE Goto(fs, "b_hash", cur, faults)

BackupHashFixed ==
    /\ pc = "b_hash"
    /\ UNCHANGED overwritten
    /\ \/ /\ faults > 0
          /\ BackupReturn(fs, "hash file", faults - 1)
       \/ HashReturn(HexEncodeToString(Sha256Sum(<<1>>)), faults)

\* CalculateHash: Open(path), io.Copy(h, f), hex.EncodeToString(h.Sum(nil))
BackupHash ==
    /\ pc = "b_hash"
    /\ UNCHANGED overwritten
    /\ \/ /\ faults > 0
          /\ BackupReturn(fs, "hash file", faults - 1)
       \/ HashReturn(HexEncodeToString(Sha256Sum(Stat(fs, cur.path).data)), faults)

\* BackupFile: Open(path), then now := s.now()
BackupOpenSrc ==
    /\ pc = "b_open"
    /\ UNCHANGED overwritten
    /\ \/ /\ faults > 0
          /\ BackupReturn(fs, "open file for backup", faults - 1)
       \/ IF Stat(fs, cur.path).kind = "absent"
          THEN BackupReturn(fs, "ok", faults)
          ELSE Goto(fs, "b_statbk",
                    [cur EXCEPT !.rfile = Resolve(fs, cur.path), !.now = clock], faults)

\* BackupFile: Stat(backupPath) decides between refreshing and creating.
BackupStatTarget ==
    /\ pc = "b_statbk"
    /\ UNCHANGED overwritten
    /\ \/ /\ faults > 0
          /\ BackupReturn(fs, "stat backup", faults - 1)
       \/ IF Stat(fs, BackupPath(cur.hash)).kind # "absent"
          THEN Goto(fs, "b_touch", cur, faults)
          ELSE Goto(fs, "b_create", cur, faults)

RefreshSkipped(f, p, t) == f

\* The backup exists: Chtimes(backupPath, now, now) and nothing else.
Refresh(f, p, t) == Chtimes(f, p, t)

BackupTouch ==
    /\ pc = "b_touch"
    /\ UNCHANGED overwritten
    /\ \/ /\ faults > 0
          /\ BackupReturn(fs, "update backup timestamp", faults - 1)
       \/ Goto(Refresh(fs, BackupPath(cur.hash), cur.now), "b_srcclose", cur, faults)

\* BackupFile: OpenFile(backupPath, O_CREATE|O_WRONLY|O_TRUNC, 0o600)
BackupCreate ==
    /\ pc = "b_create"
    /\ UNCHANGED overwritten
    /\ \/ /\ faults > 0
          /\ BackupReturn(fs, "create backup", faults - 1)
       \/ IF ~CanOpenTrunc(fs, BackupPath(cur.hash))
          THEN BackupReturn(fs, "create backup", faults)
          ELSE Goto(OpenTrunc(fs, BackupPath(cur.hash), clock), "b_copy",
                    [cur EXCEPT !.wfile = Resolve(fs, BackupPath(cur.hash)), !.off = 0],
                    faults)

\* BackupFile: io.Copy(dst, source), one byte at a time.
BackupCopy ==
    /\ pc = "b_copy"
    /\ UNCHANGED overwritten
    /\ \/ /\ faults > 0
          /\ Goto(fs, "b_cleanup", [cur EXCEPT !.err = "copy backup"], faults - 1)
       \/ IF cur.off < Len(fs[cur.rfile].data)
          THEN Goto(WriteByte(fs, cur.wfile, fs[cur.rfile].data[cur.off + 1], clock),
                    "b_copy", [cur EXCEPT !.off = cur.off + 1], faults)
          ELSE Goto(fs, "b_close", cur, faults)

\* BackupFile: dst.Close()
BackupClose ==
    /\ pc = "b_close"
    /\ UNCHANGED overwritten
    /\ \/ /\ faults > 0
          /\ Goto(fs, "b_cleanup", [cur EXCEPT !.err = "close backup"], faults - 1)
       \/ Goto(fs, "b_chtimes", cur, faults)

\* BackupFile: s.storage.Remove(backupPath) after a failed copy or close;
\* its own error is dropped.
BackupCleanup ==
    /\ pc = "b_cleanup"
    /\ UNCHANGED overwritten
    /\ \/ /\ faults > 0
          /\ Goto(fs, "b_fail", [cur EXCEPT !.dropped = TRUE], faults - 1)
       \/ Goto(Remove(fs, BackupPath(cur.hash)), "b_fail", cur, faults)

\* return fmt.Errorf(...) after the cleanup.
BackupFail ==
    /\ pc = "b_fail"
    /\ UNCHANGED overwritten
    /\ BackupReturn(fs, cur.err, faults)

\* BackupFile: Chtimes(backupPath, now, now) on the new backup.
BackupChtimes ==
    /\ pc = "b_chtimes"
    /\ UNCHANGED overwritten
    /\ \/ /\ faults > 0
          /\ BackupReturn(fs, "update backup timestamp", faults - 1)
       \/ Goto(Chtimes(fs, BackupPath(cur.hash), cur.now), "b_srcclose", cur, faults)

\* The deferred source.Close().
BackupCloseSrc ==
    /\ pc = "b_srcclose"
    /\ UNCHANGED overwritten
    /\ \/ /\ faults > 0
          /\ BackupReturn(fs, "close source", faults - 1)
       \/ BackupReturn(fs, "ok", faults)

\* Time passes between calls.
Tick ==
    /\ pc = "idle"
    /\ clock < MaxClock
    /\ clock' = clock + 1
    /\ UNCHANGED <<fs, hasLstat, pc, cur, ret, pre, faults, calls, overwritten>>

---------------------------------------------------------------------------
(* SpecBackup: backup.Service.BackupFile called on the live file and the   *)
(* profiles.                                                               *)

InitBackup ==
    /\ hasLstat \in BOOLEAN
    /\ \E live \in NodeChoices, w \in NodeChoices, d \in TmpChoices :
          fs = [EmptyFs EXCEPT
                  ![DirPath("claude")] = DirNode,
                  ![DirPath("store")] = DirNode,
                  ![DirPath("backup")] = DirNode,
                  ![ExtPath] = FileNode(ExtContent, 0, ForeignMode),
                  ![activeSettingsPath] = live,
                  ![storedSettingsPath(<<119>>)] = w,
                  ![storedSettingsPath(<<100>>)] = d]
    /\ clock = 0
    /\ pc = "idle"
    /\ cur = NoCall
    /\ ret = NoRet
    /\ pre = fs
    /\ faults = MaxFaults
    /\ calls = 0
    /\ overwritten = {}

NextBackup ==
    \/ CallBackupFile
    \/ CallCalculateHash
    \/ BackupValidate
    \/ BackupStat
    \/ BackupHash
    \/ BackupOpenSrc
    \/ BackupStatTarget
    \/ BackupTouch
    \/ BackupCreate
    \/ BackupCopy
    \/ BackupClose
    \/ BackupCleanup
    \/ BackupFail
    \/ BackupChtimes
    \/ BackupCloseSrc
    \/ Tick
    \/ Crash

SpecBackup == InitBackup /\ [][NextBackup]_vars

---------------------------------------------------------------------------
(* backup.Service.PruneBackups.                                            *)

MaxAge == 2      \* the largest olderThan passed to PruneBackups

Ages == 0..MaxAge

\* Order of two names as strings.
RECURSIVE LexLess(_, _)
LexLess(a, b) ==
    IF a = <<>> THEN b # <<>>
    ELSE IF b = <<>> THEN FALSE
    ELSE IF Head(a) = Head(b) THEN LexLess(Tail(a), Tail(b))
    ELSE Head(a) < Head(b)

\* afero.ReadDir: the entries of the directory, sorted by name.
RECURSIVE SortByName(_)
SortByName(S) ==
    IF S = {} THEN <<>>
    ELSE LET m == CHOOSE x \in S : \A y \in S \ {x} : LexLess(x.name, y.name)
         IN  <<m>> \o SortByName(S \ {m})

\* What ReadDir lists: each name with the kind Lstat gives it.
ReadDir(f, d) ==
    LET S == {p \in AllPaths : p.dir = d /\ p.name # <<>> /\ f[p].kind # "absent"}
        names == SortByName(S)
    IN  [i \in 1..Len(names) |-> [path |-> names[i], isDir |-> f[names[i]].kind = "dir"]]

CallPruneBackups ==
    \E d \in Ages :
        Begin("p_readdir", [NoCall EXCEPT !.op = "prune", !.age = d])

\* entries, err := ReadDir(backupDir); cutoff := s.now().Add(-olderThan)
PruneReadDir ==
    /\ pc = "p_readdir"
    /\ UNCHANGED overwritten
    /\ \/ /\ faults > 0
          /\ Return(fs, "read backup directory", faults - 1)
       \/ IF fs[DirPath("backup")].kind # "dir"
          THEN Return(fs, "read backup directory", faults)
          ELSE Goto(fs, "p_entry",
                    [cur EXCEPT !.todo = ReadDir(fs, "backup"), !.now = clock],
                    faults)

PruneEntryNotStrict ==
    /\ pc = "p_entry"
    /\ UNCHANGED overwritten
    /\ IF cur.todo = <<>> THEN Return(fs, "ok", faults)
       ELSE IF Head(cur.todo).isDir
       THEN Goto(fs, "p_entry", [cur EXCEPT !.todo = Tail(cur.todo)], faults)
       ELSE \/ /\ faults > 0
               /\ Return(fs, "stat backup", faults - 1)
            \/ IF Stat(fs, Head(cur.todo).path).kind = "absent"
               THEN Return(fs, "stat backup", faults)
               ELSE IF Stat(fs, Head(cur.todo).path).mtime <= cur.now - cur.age
               THEN Goto(fs, "p_remove", cur, faults)
               ELSE Goto(fs, "p_entry", [cur EXCEPT !.todo = Tail(cur.todo)], faults)

\* The loop: return when no entry is left; skip a directory; Stat the entry
\* and compare info.ModTime().Before(cutoff).
PruneEntry ==
    /\ pc = "p_entry"
    /\ UNCHANGED overwritten
    /\ IF cur.todo = <<>> THEN Return(fs, "ok", faults)
       ELSE IF Head(cur.todo).isDir
       THEN Goto(fs, "p_entry", [cur EXCEPT !.todo = Tail(cur.todo)], faults)
       ELSE \/ /\ faults > 0
               /\ Return(fs, "stat backup", faults - 1)
            \/ IF Stat(fs, Head(cur.todo).path).kind = "absent"
               THEN Return(fs, "stat backup", faults)
               ELSE IF Stat(fs, Head(cur.todo).path).mtime < cur.now - cur.age
               THEN Goto(fs, "p_remove", cur, faults)
               ELSE Goto(fs, "p_entry", [cur EXCEPT !.todo = Tail(cur.todo)], faults)

\* s.storage.Remove(path); deleted++
PruneRemove ==
    /\ pc = "p_remove"
    /\ UNCHANGED overwritten
    /\ \/ /\ faults > 0
          /\ Return(fs, "delete backup", faults - 1)
       \/ Goto(Remove(fs, Head(cur.todo).path), "p_entry",
               [cur EXCEPT !.todo = Tail(cur.todo), !.deleted = cur.deleted + 1],
               faults)

---------------------------------------------------------------------------
(* SpecPrune: BackupFile and PruneBackups on a backup directory that holds *)
(* entries of several ages, a planted link and a subdirectory.             *)

EntryChoices(c) == {Absent} \cup {FileNode(c, t, FileMode) : t \in 0..MaxClock}

InitPrune ==
    /\ hasLstat = TRUE
    /\ \E live \in {Absent, FileNode(<<>>, 0, ForeignMode), FileNode(<<1>>, 0, ForeignMode)},
          e0 \in EntryChoices(<<>>), e2 \in EntryChoices(<<2, 1>>),
          e3 \in {Absent, LinkNode}, sub \in {Absent, DirNode} :
          fs = [EmptyFs EXCEPT
                  ![DirPath("claude")] = DirNode,
                  ![DirPath("store")] = DirNode,
                  ![DirPath("backup")] = DirNode,
                  ![ExtPath] = FileNode(ExtContent, 0, ForeignMode),
                  ![activeSettingsPath] = live,
                  ![BackupPath(HashOfContent(<<>>))] = e0,
                  ![BackupPath(HashOfContent(<<2, 1>>))] = e2,
                  ![BackupPath(HashOfContent(ExtContent))] = e3,
                  ![BackupSubdir] = sub]
    /\ clock \in 0..MaxClock
    /\ pc = "idle"
    /\ cur = NoCall
    /\ ret = NoRet
    /\ pre = fs
    /\ faults = MaxFaults
    /\ calls = 0
    /\ overwritten = {}

NextPrune ==
    \/ CallPruneBackups
    \/ PruneReadDir
    \/ PruneEntry
    \/ PruneRemove
    \/ CallBackupFile
    \/ BackupValidate
    \/ BackupStat
    \/ BackupHash
    \/ BackupOpenSrc
    \/ BackupStatTarget
    \/ BackupTouch
    \/ BackupCreate
    \/ BackupCopy
    \/ BackupClose
    \/ BackupCleanup
    \/ BackupFail
    \/ BackupChtimes
    \/ BackupCloseSrc
    \/ Tick
    \/ Crash

SpecPrune == InitPrune /\ [][NextPrune]_vars

---------------------------------------------------------------------------
(* Manager.Use and Manager.Save: InitInfra, the name, the existence check, *)
(* backupFile, copyFile, SetActiveSettings.                                *)

\* The arguments handed to Use and Save: "w", " w<TAB>", "d", "..".
MgrInputs == {<<119>>, <<32, 119, 9>>, <<100>>, <<46, 46>>}

CallUse ==
    \E raw \in MgrInputs :
        Begin("m_init", [NoCall EXCEPT !.op = "use", !.arg = raw])

CallSave ==
    \E raw \in MgrInputs :
        Begin("m_init", [NoCall EXCEPT !.op = "save", !.arg = raw])

\* paths := []string{m.claudeDir(), m.settingsStoreDir(), m.backupDir()}
InfraDirs == <<"claude", "store", "backup">>

\* The first k directories of InfraDirs made.
RECURSIVE MkdirFirst(_, _)
MkdirFirst(f, k) ==
    IF k = 0 THEN f ELSE MkdirAll(MkdirFirst(f, k - 1), InfraDirs[k])

\* InitInfra: MkdirAll(p, 0o700) for each of the three directories; the
\* loop stops at the first one that fails.
InitInfra ==
    /\ pc = "m_init"
    /\ UNCHANGED overwritten
    /\ \/ /\ faults > 0
          /\ \E k \in 0..(Len(InfraDirs) - 1) :
                Return(MkdirFirst(fs, k), "create directory", faults - 1)
       \/ Goto(MkdirFirst(fs, Len(InfraDirs)),
               IF cur.op = "use" THEN "u_norm" ELSE "s_exists", cur, faults)

UseNormalizeSwapped ==
    /\ pc = "u_norm"
    /\ UNCHANGED overwritten
    /\ LET n == NormalizeName(cur.arg) IN
       IF ~n.ok THEN Return(fs, n.err, faults)
       ELSE Goto(fs, "u_exists",
                 [cur EXCEPT !.name = n.name,
                             !.src = activeSettingsPath,
                             !.dst = storedSettingsPath(n.name),
                             !.path = activeSettingsPath], faults)

\* Use: normalizeSettingsName(name), targetPath := storedSettingsPath(...)
UseNormalize ==
    /\ pc = "u_norm"
    /\ UNCHANGED overwritten
    /\ LET n == NormalizeName(cur.arg) IN
       IF ~n.ok THEN Return(fs, n.err, faults)
       ELSE Goto(fs, "u_exists",
                 [cur EXCEPT !.name = n.name,
                             !.src = storedSettingsPath(n.name),
                             !.dst = activeSettingsPath,
                             !.path = activeSettingsPath], faults)

\* Use: afero.Exists(m.fs, targetPath), then m.backupFile(activeSettingsPath)
UseExistsSkipped ==
    /\ pc = "u_exists"
    /\ UNCHANGED overwritten
    /\ \/ /\ faults > 0
          /\ Return(fs, "inspect target settings", faults - 1)
       \/ Goto(fs, "b_stat", cur, faults)

UseExists ==
    /\ pc = "u_exists"
    /\ UNCHANGED overwritten
    /\ \/ /\ faults > 0
          /\ Return(fs, "inspect target settings", faults - 1)
       \/ IF Stat(fs, cur.src).kind = "absent"
          THEN Return(fs, "NotFound", faults)
          ELSE Goto(fs, "b_stat", cur, faults)

\* Save: afero.Exists(m.fs, activePath)
SaveExistsSkipped ==
    /\ pc = "s_exists"
    /\ UNCHANGED overwritten
    /\ \/ /\ faults > 0
          /\ Return(fs, "inspect settings.json", faults - 1)
       \/ Goto(fs, "s_norm", cur, faults)

SaveExists ==
    /\ pc = "s_exists"
    /\ UNCHANGED overwritten
    /\ \/ /\ faults > 0
          /\ Return(fs, "inspect settings.json", faults - 1)
       \/ IF Stat(fs, activeSettingsPath).kind = "absent"
          THEN Return(fs, "NothingToSave", faults)
          ELSE Goto(fs, "s_norm", cur, faults)

\* Save: normalizeSettingsName(targetName), then m.backupFile(targetPath)
SaveNormalize ==
    /\ pc = "s_norm"
    /\ UNCHANGED overwritten
    /\ LET n == NormalizeName(cur.arg) IN
       IF ~n.ok THEN Return(fs, n.err, faults)
       ELSE Goto(fs, "b_stat",
                 [cur EXCEPT !.name = n.name,
                             !.src = activeSettingsPath,
                             !.dst = storedSettingsPath(n.name),
                             !.path = storedSettingsPath(n.name)], faults)

\* SetActiveSettings, afero.WriteFile: OpenFile(O_WRONLY|O_CREATE|O_TRUNC, 0o600)
SetActiveOpen ==
    /\ pc = "a_open"
    /\ UNCHANGED overwritten
    /\ \/ /\ faults > 0
          /\ Return(fs, "update active settings", faults - 1)
       \/ IF ~CanOpenTrunc(fs, activeStatePath)
          THEN Return(fs, "update active settings", faults)
          ELSE Goto(OpenTrunc(fs, activeStatePath, clock), "a_write",
                    [cur EXCEPT !.wfile = Resolve(fs, activeStatePath)], faults)

SetActiveWriteRaw ==
    /\ pc = "a_write"
    /\ UNCHANGED overwritten
    /\ Goto([fs EXCEPT ![cur.wfile] = FileNode(cur.arg, clock, fs[cur.wfile].mode)],
            "a_close", cur, faults)

\* SetActiveSettings, afero.WriteFile: f.Write([]byte(name))
SetActiveWrite ==
    /\ pc = "a_write"
    /\ UNCHANGED overwritten
    /\ \/ /\ faults > 0
          /\ Return(fs, "update active settings", faults - 1)
       \/ Goto([fs EXCEPT ![cur.wfile] = FileNode(cur.name, clock, fs[cur.wfile].mode)],
               "a_close", cur, faults)

\* SetActiveSettings, afero.WriteFile: f.Close(); Use / Save return.
SetActiveClose ==
    /\ pc = "a_close"
    /\ UNCHANGED overwritten
    /\ \/ /\ faults > 0
          /\ Return(fs, "update active settings", faults - 1)
       \/ Return(fs, "ok", faults)

---------------------------------------------------------------------------
(* settings.Service.GetActiveName and SetActiveName.                       *)

ActiveInputs == {<<>>, <<32>>, <<119>>, <<32, 119, 9>>, <<119, 32, 100, 10>>}

ActiveNameRaw(f) ==
    IF Stat(f, activeStatePath).kind = "file"
    THEN Stat(f, activeStatePath).data
    ELSE <<>>

\* GetActiveName: "" when ReadFile fails, else TrimSpace of the content.
ActiveName(f) ==
    IF Stat(f, activeStatePath).kind = "file"
    THEN TrimSpace(Stat(f, activeStatePath).data)
    ELSE <<>>

CallSetActiveName ==
    \E n \in ActiveInputs :
        Begin("a_open", [NoCall EXCEPT !.op = "setactive", !.arg = n, !.name = n])

CallGetActiveName ==
    Begin("g_read", [NoCall EXCEPT !.op = "getactive"])

\* content, err := ReadFile(activeState); a failed read is answered with "".
GetActiveRead ==
    /\ pc = "g_read"
    /\ UNCHANGED overwritten
    /\ \/ /\ faults > 0
          /\ ReturnOf([cur EXCEPT !.name = <<>>, !.dropped = TRUE], fs, "ok", faults - 1)
       \/ ReturnOf([cur EXCEPT !.name = ActiveName(fs)], fs, "ok", faults)

---------------------------------------------------------------------------
(* SpecActive: the active pointer read and written on a home where it is   *)
(* missing, present, or a planted link.                                    *)

InitActive ==
    /\ hasLstat = TRUE
    /\ \E home \in {Absent, DirNode},
          ptr \in {Absent, LinkNode, FileNode(<<100, 10>>, 0, FileMode)} :
          /\ home = Absent => ptr = Absent
          /\ fs = [EmptyFs EXCEPT
                     ![DirPath("claude")] = home,
                     ![ExtPath] = FileNode(ExtContent, 0, ForeignMode),
                     ![activeStatePath] = ptr]
    /\ clock = 0
    /\ pc = "idle"
    /\ cur = NoCall
    /\ ret = NoRet
    /\ pre = fs
    /\ faults = MaxFaults
    /\ calls = 0
    /\ overwritten = {}

NextActive ==
    \/ CallSetActiveName
    \/ SetActiveOpen
    \/ SetActiveWrite
    \/ SetActiveClose
    \/ CallGetActiveName
    \/ GetActiveRead
    \/ Tick
    \/ Crash

SpecActive == InitActive /\ [][NextActive]_vars

---------------------------------------------------------------------------
(* settings.Service.ListStored and ListEntries.                            *)

HasSuffix(s, suf) ==
    Len(s) >= Len(suf) /\ SubSeq(s, Len(s) - Len(suf) + 1, Len(s)) = suf

TrimSuffix(s, suf) ==
    IF HasSuffix(s, suf) THEN SubSeq(s, 1, Len(s) - Len(suf)) ELSE s

\* sort.Strings
RECURSIVE InsertSorted(_, _)
InsertSorted(x, sorted) ==
    IF sorted = <<>> THEN <<x>>
    ELSE IF LexLess(Head(sorted), x) THEN <<Head(sorted)>> \o InsertSorted(x, Tail(sorted))
    ELSE <<x>> \o sorted

RECURSIVE SortStrings(_)
SortStrings(q) ==
    IF q = <<>> THEN <<>> ELSE InsertSorted(Head(q), SortStrings(Tail(q)))

RECURSIVE StoredNamesWithDirs(_)
StoredNamesWithDirs(entries) ==
    IF entries = <<>> THEN <<>>
    ELSE IF HasSuffix(Head(entries).path.name, JsonExt)
    THEN <<TrimSuffix(Head(entries).path.name, JsonExt)>> \o StoredNamesWithDirs(Tail(entries))
    ELSE StoredNamesWithDirs(Tail(entries))

\* The loop of ListStored over the entries ReadDir gave.
RECURSIVE StoredNamesOf(_)
StoredNamesOf(entries) ==
    IF entries = <<>> THEN <<>>
    ELSE IF Head(entries).isDir THEN StoredNamesOf(Tail(entries))
    ELSE IF HasSuffix(Head(entries).path.name, JsonExt)
    THEN <<TrimSuffix(Head(entries).path.name, JsonExt)>> \o StoredNamesOf(Tail(entries))
    ELSE StoredNamesOf(Tail(entries))

ListStored(f) == SortStrings(StoredNamesOf(ReadDir(f, "store")))

CalculateHashWithTime(f, lst, chk, p) ==
    IF chk /\ ValidatePathSafety(f, lst, p) # "ok"
    THEN [err |-> ValidatePathSafety(f, lst, p), hash |-> <<>>]
    ELSE IF Stat(f, p).kind = "absent" THEN [err |-> "ok", hash |-> <<>>]
    ELSE [err |-> "ok", hash |-> HashOfContent(Stat(f, p).data) \o <<Stat(f, p).mtime>>]

\* calculateHash(path) as ListEntries is given it: CalculateHash of the
\* backup service (chk, with the path check) or of the Manager (no check).
CalculateHash(f, lst, chk, p) ==
    IF chk /\ ValidatePathSafety(f, lst, p) # "ok"
    THEN [err |-> ValidatePathSafety(f, lst, p), hash |-> <<>>]
    ELSE IF Stat(f, p).kind = "absent" THEN [err |-> "ok", hash |-> <<>>]
    ELSE [err |-> "ok", hash |-> HashOfContent(Stat(f, p).data)]


ModifiedAlways(currentHash, storedHash) == TRUE

\* currentHash != "" && storedHash != "" && currentHash != storedHash
Modified(currentHash, storedHash) ==
    currentHash # <<>> /\ storedHash # <<>> /\ currentHash # storedHash

\* The entry of one stored name.
StoredEntry(name, activeName, currentHash, storedHash) ==
    IF name = activeName
    THEN [name |-> name, prefix |-> "*", plain |-> FALSE,
          quals |-> IF Modified(currentHash, storedHash)
                    THEN <<"active", "modified">> ELSE <<"active">>]
    ELSE [name |-> name, prefix |-> " ", plain |-> FALSE, quals |-> <<>>]

SyntheticNever(names, activeName, currentHash) == <<>>

\* The entry added after the loop: the missing active profile, or the
\* unsaved live file.
Synthetic(names, activeName, currentHash) ==
    IF activeName # <<>> /\ \A i \in 1..Len(names) : names[i] # activeName
    THEN <<[name |-> activeName, prefix |-> "!", plain |-> FALSE,
            quals |-> <<"active", "missing!">>]>>
    ELSE IF activeName = <<>> /\ currentHash # <<>>
    THEN <<[name |-> UnsavedName, prefix |-> "*", plain |-> TRUE, quals |-> <<>>]>>
    ELSE <<>>

CallListStored ==
    Begin("ls_readdir", [NoCall EXCEPT !.op = "liststored"])

CallListEntries ==
    \E chk \in BOOLEAN :
        Begin("le_active", [NoCall EXCEPT !.op = "list", !.check = chk])

\* activeName := s.GetActiveName()
ListActive ==
    /\ pc = "le_active"
    /\ UNCHANGED overwritten
    /\ \/ /\ faults > 0
          /\ Goto(fs, "le_hash", [cur EXCEPT !.name = <<>>, !.dropped = TRUE], faults - 1)
       \/ Goto(fs, "le_hash", [cur EXCEPT !.name = ActiveName(fs)], faults)

\* currentHash, err := calculateHash(activePath)
ListHashLive ==
    /\ pc = "le_hash"
    /\ UNCHANGED overwritten
    /\ \/ /\ faults > 0
          /\ Return(fs, "stat file for hashing", faults - 1)
       \/ LET h == CalculateHash(fs, hasLstat, cur.check, activeSettingsPath) IN
          IF h.err # "ok" THEN Return(fs, h.err, faults)
          ELSE Goto(fs, "ls_readdir", [cur EXCEPT !.hash = h.hash], faults)

\* ListStored: ReadDir of the store, the names of the ".json" entries that
\* are not directories, sorted.
ListStoredStep ==
    /\ pc = "ls_readdir"
    /\ UNCHANGED overwritten
    /\ \/ /\ faults > 0
          /\ Return(fs, "read settings store", faults - 1)
       \/ IF fs[DirPath("store")].kind # "dir"
          THEN Return(fs, "read settings store", faults)
          ELSE IF cur.op = "liststored"
          THEN ReturnOf([cur EXCEPT !.out = ListStored(fs)], fs, "ok", faults)
          ELSE Goto(fs, "le_loop", [cur EXCEPT !.todo = ListStored(fs)], faults)

\* The loop over the names and the entry added after it.
ListLoop ==
    /\ pc = "le_loop"
    /\ UNCHANGED overwritten
    /\ LET names == cur.todo
           isStored == \E i \in 1..Len(names) : names[i] = cur.name
           h == CalculateHash(fs, hasLstat, cur.check, storedSettingsPath(cur.name))
       IN  \/ /\ isStored /\ faults > 0
              /\ Return(fs, "stat file for hashing", faults - 1)
           \/ IF isStored /\ h.err # "ok" THEN Return(fs, h.err, faults)
              ELSE ReturnOf(
                     [cur EXCEPT !.out =
                        [i \in 1..Len(names) |->
                            StoredEntry(names[i], cur.name, cur.hash, h.hash)]
                        \o Synthetic(names, cur.name, cur.hash)],
                     fs, "ok", faults)

---------------------------------------------------------------------------
(* SpecList: ListStored and ListEntries on a store that holds profiles,    *)
(* a planted link, leftovers and a subdirectory, with the pointer unset,   *)
(* naming a profile, or naming one that is not there.                      *)

ListNodeChoices == {Absent, LinkNode} \cup {FileNode(c, 0, FileMode) : c \in FileContents}

PointerChoices ==
    {Absent} \cup {FileNode(c, 0, FileMode) : c \in {<<>>, <<119>>, <<32, 119, 10>>, <<103>>}}

InitList ==
    /\ hasLstat \in BOOLEAN
    /\ \E live \in ListNodeChoices, w \in ListNodeChoices, d \in TmpChoices,
          ptr \in PointerChoices, clutter \in BOOLEAN, store \in {Absent, DirNode} :
          /\ store = Absent => (w = Absent /\ d = Absent /\ ~clutter)
          /\ fs = [EmptyFs EXCEPT
                     ![DirPath("claude")] = DirNode,
                     ![DirPath("store")] = store,
                     ![DirPath("backup")] = store,
                     ![ExtPath] = FileNode(ExtContent, 0, ForeignMode),
                     ![activeSettingsPath] = live,
                     ![activeStatePath] = ptr,
                     ![storedSettingsPath(<<119>>)] = w,
                     ![storedSettingsPath(<<100>>)] = d,
                     ![TmpPath(storedSettingsPath(<<119>>))] =
                         IF clutter THEN FileNode(<<1>>, 0, FileMode) ELSE Absent,
                     ![StoreSubdir] = IF clutter THEN DirNode ELSE Absent,
                     ![StoreOther] =
                         IF clutter THEN FileNode(<<1>>, 0, FileMode) ELSE Absent,
                     ![StoreNameless] =
                         IF clutter THEN FileNode(<<1>>, 0, FileMode) ELSE Absent]
    /\ clock = 0
    /\ pc = "idle"
    /\ cur = NoCall
    /\ ret = NoRet
    /\ pre = fs
    /\ faults = MaxFaults
    /\ calls = 0
    /\ overwritten = {}

NextList ==
    \/ CallListStored
    \/ CallListEntries
    \/ ListActive
    \/ ListHashLive
    \/ ListStoredStep
    \/ ListLoop
    \/ Crash

SpecList == InitList /\ [][NextList]_vars

---------------------------------------------------------------------------
(* SpecMgr: Use and Save on a fresh home directory or on one that holds a  *)
(* live file, profiles and an active pointer.                              *)

LiveChoices == NodeChoices
ProfileChoices == {Absent, LinkNode, FileNode(<<1>>, 0, FileMode)}

InitMgr ==
    /\ hasLstat \in BOOLEAN
    /\ \E live \in LiveChoices, w \in ProfileChoices, d \in TmpChoices,
          fresh \in BOOLEAN :
          /\ fresh => (w = Absent /\ d = Absent)
          /\ fs = [EmptyFs EXCEPT
                     ![DirPath("claude")] = DirNode,
                     ![DirPath("store")] = IF fresh THEN Absent ELSE DirNode,
                     ![DirPath("backup")] = IF fresh THEN Absent ELSE DirNode,
                     ![ExtPath] = FileNode(ExtContent, 0, ForeignMode),
                     ![activeSettingsPath] = live,
                     ![activeStatePath] =
                         IF fresh THEN Absent ELSE FileNode(<<100>>, 0, FileMode),
                     ![storedSettingsPath(<<119>>)] = w,
                     ![storedSettingsPath(<<100>>)] = d]
    /\ clock = 0
    /\ pc = "idle"
    /\ cur = NoCall
    /\ ret = NoRet
    /\ pre = fs
    /\ faults = MaxFaults
    /\ calls = 0
    /\ overwritten = {}

NextMgr ==
    \/ CallUse
    \/ CallSave
    \/ InitInfra
    \/ UseNormalize
    \/ UseExists
    \/ SaveExists
    \/ SaveNormalize
    \/ BackupStat
    \/ BackupHash
    \/ BackupOpenSrc
    \/ BackupStatTarget
    \/ BackupTouch
    \/ BackupCreate
    \/ BackupCopy
    \/ BackupClose
    \/ BackupCleanup
    \/ BackupFail
    \/ BackupChtimes
    \/ BackupCloseSrc
    \/ CopyValidateSrc
    \/ CopyValidateDst
    \/ CopyOpenSrc
    \/ CopyMkdirAll
    \/ CopyCreateTmp
    \/ CopyData
    \/ CopyCloseTmp
    \/ CopyRename
    \/ CopyCleanup
    \/ CopyFail
    \/ CopyCloseSrc
    \/ SetActiveOpen
    \/ SetActiveWrite
    \/ SetActiveClose
    \/ Tick
    \/ Crash

SpecMgr == InitMgr /\ [][NextMgr]_vars

---------------------------------------------------------------------------
(* SpecStore: Manager.Use and Manager.Save together with                   *)
(* backup.Service.BackupFile called on its own, on the same home.          *)

NextStore ==
    \/ NextMgr
    \/ CallBackupFile
    \/ BackupValidate

SpecStore == InitMgr /\ [][NextStore]_vars

---------------------------------------------------------------------------
(* SpecDangling: ListEntries, Use and Save on a home whose active pointer  *)
(* names a profile that is not in the store.                               *)

InitDangling ==
    /\ hasLstat \in BOOLEAN
    /\ \E live \in {Absent, FileNode(<<2, 1>>, 0, ForeignMode)}, d \in TmpChoices,
          ptr \in {<<103>>, <<100, 10>>} :
          /\ ptr = <<100, 10>> => d = Absent
          /\ fs = [EmptyFs EXCEPT
                     ![DirPath("claude")] = DirNode,
                     ![DirPath("store")] = DirNode,
                     ![DirPath("backup")] = DirNode,
                     ![ExtPath] = FileNode(ExtContent, 0, ForeignMode),
                     ![activeSettingsPath] = live,
                     ![activeStatePath] = FileNode(ptr, 0, FileMode),
                     ![storedSettingsPath(<<119>>)] = FileNode(<<1>>, 0, FileMode),
                     ![storedSettingsPath(<<100>>)] = d]
    /\ clock = 0
    /\ pc = "idle"
    /\ cur = NoCall
    /\ ret = NoRet
    /\ pre = fs
    /\ faults = MaxFaults
    /\ calls = 0
    /\ overwritten = {}

NextDangling ==
    \/ NextMgr
    \/ CallListEntries
    \/ ListActive
    \/ ListHashLive
    \/ ListStoredStep
    \/ ListLoop

SpecDangling == InitDangling /\ [][NextDangling]_vars

---------------------------------------------------------------------------
(* SpecPerm: Use, Save and BackupFile on a home whose files were made by   *)
(* someone else with mode 0644: the live file, a profile, the pointer and  *)
(* a leftover temporary file.                                              *)

InitPerm ==
    /\ hasLstat = TRUE
    /\ \E live \in {Absent, FileNode(<<2, 1>>, 0, ForeignMode)},
          ptr \in {Absent, FileNode(<<100>>, 0, ForeignMode)},
          tmp \in {Absent, FileNode(<<1>>, 0, ForeignMode)},
          fresh \in BOOLEAN :
          /\ fs = [EmptyFs EXCEPT
                     ![DirPath("claude")] = DirNode,
                     ![DirPath("store")] = IF fresh THEN Absent ELSE DirNode,
                     ![DirPath("backup")] = IF fresh THEN Absent ELSE DirNode,
                     ![ExtPath] = FileNode(ExtContent, 0, ForeignMode),
                     ![activeSettingsPath] = live,
                     ![TmpPath(activeSettingsPath)] = tmp,
                     ![activeStatePath] = ptr,
                     ![storedSettingsPath(<<119>>)] =
                         IF fresh THEN Absent ELSE FileNode(<<1>>, 0, ForeignMode)]
    /\ clock = 0
    /\ pc = "idle"
    /\ cur = NoCall
    /\ ret = NoRet
    /\ pre = fs
    /\ faults = MaxFaults
    /\ calls = 0
    /\ overwritten = {}

SpecPerm == InitPerm /\ [][NextStore]_vars

---------------------------------------------------------------------------
(* SpecLinks: Use, Save and BackupFile on a home where one path the calls  *)
(* write to is a planted link: the live file, a profile, the temporary     *)
(* path of the copy, a backup entry or the active pointer.                 *)

LinkPlaces ==
    {activeSettingsPath, storedSettingsPath(<<119>>), TmpPath(activeSettingsPath),
     BackupPath(HashOfContent(<<2, 1>>)), activeStatePath}

InitLinks ==
    /\ hasLstat = TRUE
    /\ \E place \in LinkPlaces \cup {ExtPath} :
          LET base == [EmptyFs EXCEPT
                         ![DirPath("claude")] = DirNode,
                         ![DirPath("store")] = DirNode,
                         ![DirPath("backup")] = DirNode,
                         ![ExtPath] = FileNode(ExtContent, 0, ForeignMode),
                         ![activeSettingsPath] = FileNode(<<2, 1>>, 0, FileMode),
                         ![activeStatePath] = FileNode(<<100>>, 0, FileMode),
                         ![storedSettingsPath(<<119>>)] = FileNode(<<1>>, 0, FileMode)]
          IN  fs = IF place = ExtPath THEN base ELSE [base EXCEPT ![place] = LinkNode]
    /\ clock = 0
    /\ pc = "idle"
    /\ cur = NoCall
    /\ ret = NoRet
    /\ pre = fs
    /\ faults = MaxFaults
    /\ calls = 0
    /\ overwritten = {}

SpecLinks == InitLinks /\ [][NextStore]_vars

---------------------------------------------------------------------------
(* SpecVal: ValidateName applied to every string over Alphabet of at most  *)
(* MaxNameLen characters.                                                  *)

\* ValidateName(name) is evaluated and its result returned.
ValidateStep ==
    /\ pc = "validate"
    /\ UNCHANGED overwritten
    /\ Return(fs, ValidateName(cur.arg), faults)

InitVal ==
    /\ hasLstat = TRUE
    /\ fs = [EmptyFs EXCEPT ![DirPath("claude")] = DirNode]
    /\ clock = 0
    /\ pc = "validate"
    /\ \E s \in Strings : cur = [NoCall EXCEPT !.op = "validate", !.arg = s]
    /\ ret = NoRet
    /\ pre = fs
    /\ faults = 0
    /\ calls = 1
    /\ overwritten = {}

NextVal ==
    \/ ValidateStep

SpecVal == InitVal /\ [][NextVal]_vars

---------------------------------------------------------------------------
(* SpecCore: every operation of the core on a home that Use and Save have  *)
(* made: the pointer is unset or names a stored profile; the live file and *)
(* the profiles may be empty; the backup directory holds an old entry.     *)

\* ValidateSettingsName called on its own.
CallValidateName ==
    \E raw \in MgrInputs :
        Begin("validate", [NoCall EXCEPT !.op = "validate", !.arg = raw])

InitCore ==
    /\ hasLstat = TRUE
    /\ \E live \in {Absent, FileNode(<<>>, 0, FileMode), FileNode(<<2, 1>>, 0, FileMode)},
          w \in {Absent, FileNode(<<1>>, 0, FileMode)},
          d \in {Absent, FileNode(<<>>, 0, FileMode)},
          ptr \in {Absent, FileNode(<<119>>, 0, FileMode), FileNode(<<100>>, 0, FileMode)} :
          /\ ptr.data = <<119>> => w # Absent
          /\ ptr.data = <<100>> => d # Absent
          /\ fs = [EmptyFs EXCEPT
                     ![DirPath("claude")] = DirNode,
                     ![DirPath("store")] = DirNode,
                     ![DirPath("backup")] = DirNode,
                     ![ExtPath] = FileNode(ExtContent, 0, ForeignMode),
                     ![activeSettingsPath] = live,
                     ![activeStatePath] = ptr,
                     ![storedSettingsPath(<<119>>)] = w,
                     ![storedSettingsPath(<<100>>)] = d,
                     ![BackupPath(HashOfContent(<<1>>))] = FileNode(<<1>>, 0, FileMode)]
    /\ clock = 0
    /\ pc = "idle"
    /\ cur = NoCall
    /\ ret = NoRet
    /\ pre = fs
    /\ faults = MaxFaults
    /\ calls = 0
    /\ overwritten = {}

NextCore ==
    \/ NextStore
    \/ CallCalculateHash
    \/ CallValidateName
    \/ ValidateStep
    \/ CallPruneBackups
    \/ PruneReadDir
    \/ PruneEntry
    \/ PruneRemove
    \/ CallListEntries
    \/ ListActive
    \/ ListHashLive
    \/ ListStoredStep
    \/ ListLoop

SpecCore == InitCore /\ [][NextCore]_vars

---------------------------------------------------------------------------
(* SpecNorm: NormalizeName applied to every string over Alphabet of at     *)
(* most MaxNameLen characters, and Use and Save called with names that     *)
(* carry surrounding whitespace.                                           *)

\* NormalizeName(name) is evaluated and its result returned.
NormalizeStep ==
    /\ pc = "normalize"
    /\ UNCHANGED overwritten
    /\ LET n == NormalizeName(cur.arg) IN
       ReturnOf([cur EXCEPT !.name = n.name], fs, n.err, faults)

InitNorm ==
    \/ /\ hasLstat = TRUE
       /\ fs = [EmptyFs EXCEPT ![DirPath("claude")] = DirNode]
       /\ clock = 0
       /\ pc = "normalize"
       /\ \E s \in Strings : cur = [NoCall EXCEPT !.op = "normalize", !.arg = s]
       /\ ret = NoRet
       /\ pre = fs
       /\ faults = 0
       /\ calls = 1
       /\ overwritten = {}
    \/ InitCore

NextNorm ==
    \/ NormalizeStep
    \/ NextMgr

SpecNorm == InitNorm /\ [][NextNorm]_vars

---------------------------------------------------------------------------
(* SpecAfter: Use and Save, and after a Use or Save that succeeded either  *)
(* ListEntries or Use of the same name, with nothing in between.           *)

\* What the next call keeps of the call that just returned: the operation
\* and the content the live file had before it.
PrevCall == [op |-> ret.op, live |-> Stat(pre, activeSettingsPath).data]

\* ListSettings right after a successful Use or Save.
CallListAfter ==
    /\ ret.op \in {"use", "save"}
    /\ ret.res = "ok"
    /\ \E chk \in BOOLEAN :
          Begin("le_active", [NoCall EXCEPT !.op = "list", !.arg = ret.name,
                                            !.check = chk, !.prev = PrevCall])

\* Use(n) right after a successful Use(n) or Save(n).
CallUseAgain ==
    /\ ret.op \in {"use", "save"}
    /\ ret.res = "ok"
    /\ Begin("m_init", [NoCall EXCEPT !.op = "use", !.arg = ret.arg, !.prev = PrevCall])

NextAfter ==
    \/ NextMgr
    \/ CallListAfter
    \/ CallUseAgain
    \/ ListActive
    \/ ListHashLive
    \/ ListStoredStep
    \/ ListLoop

SpecAfter == InitCore /\ [][NextAfter]_vars

---------------------------------------------------------------------------
(* SpecRace: two processes run CopyFile to the same destination at the     *)
(* same time, or one after the other was stopped.  Here pc and cur hold    *)
(* one entry per process; an open file is the path its inode is at.        *)

Procs == {1, 2}

RaceDst == activeSettingsPath

RaceSrc(p) == IF p = 1 THEN storedSettingsPath(<<119>>) ELSE storedSettingsPath(<<100>>)

\* The processes that hold the temporary file open for writing.
Writing(p) == pc[p] \in {"r_copy", "r_close"}

\* One Write of byte b at offset off of the open file q; a gap before the
\* offset reads as zero bytes.
WriteAt(f, q, off, b, t) ==
    LET d == f[q].data
        n == IF Len(d) > off + 1 THEN Len(d) ELSE off + 1
    IN  [f EXCEPT ![q] = FileNode([i \in 1..n |-> IF i = off + 1 THEN b
                                                  ELSE IF i <= Len(d) THEN d[i]
                                                  ELSE 0],
                                  t, f[q].mode)]

RaceStep(nfs, npc, ncur) ==
    /\ fs' = nfs
    /\ pc' = npc
    /\ cur' = ncur
    /\ UNCHANGED <<hasLstat, clock, ret, pre, faults, calls, overwritten>>

\* source, err := s.fs.Open(src)
RaceOpenSrc(p) ==
    /\ pc[p] = "r_open"
    /\ RaceStep(fs, [pc EXCEPT ![p] = "r_tmp"], cur)

\* tmp := dst + ".tmp"; OpenFile(tmp, O_CREATE|O_WRONLY|O_TRUNC, 0o600)
RaceCreateTmp(p) ==
    /\ pc[p] = "r_tmp"
    /\ LET shared == \E q \in Procs \ {p} : Writing(q) \/ pc[q] = "r_rename" IN
       RaceStep(OpenTrunc(fs, TmpPath(RaceDst), clock),
                [pc EXCEPT ![p] = "r_copy"],
                [q \in Procs |->
                    IF q = p
                    THEN [cur[q] EXCEPT !.wfile = TmpPath(RaceDst), !.off = 0,
                                        !.dropped = shared]
                    ELSE [cur[q] EXCEPT !.dropped = cur[q].dropped \/ shared]])

\* io.Copy(dest, source): each Write goes to the offset of the process's own
\* descriptor, into the file the descriptor was opened on, wherever a
\* Rename has moved it; nowhere once it was replaced or removed.
RaceWrite(p) ==
    /\ pc[p] = "r_copy"
    /\ LET src == fs[RaceSrc(p)].data IN
       IF cur[p].off < Len(src)
       THEN RaceStep(IF cur[p].wfile = NoPath THEN fs
                     ELSE WriteAt(fs, cur[p].wfile, cur[p].off, src[cur[p].off + 1], clock),
                     pc, [cur EXCEPT ![p].off = cur[p].off + 1])
       ELSE RaceStep(fs, [pc EXCEPT ![p] = "r_close"], cur)

\* closeErr := dest.Close()
RaceCloseTmp(p) ==
    /\ pc[p] = "r_close"
    /\ RaceStep(fs, [pc EXCEPT ![p] = "r_rename"], cur)

\* s.fs.Rename(tmp, dst); on its failure s.fs.Remove(tmp) and the error.
RaceRename(p) ==
    /\ pc[p] = "r_rename"
    /\ IF fs[TmpPath(RaceDst)].kind = "file"
       THEN RaceStep(Rename(fs, TmpPath(RaceDst), RaceDst),
                     [pc EXCEPT ![p] = "r_done"],
                     [q \in Procs |->
                        IF q = p THEN [cur[q] EXCEPT !.err = "ok"]
                        ELSE IF Writing(q) /\ cur[q].wfile = TmpPath(RaceDst)
                        THEN [cur[q] EXCEPT !.wfile = RaceDst]
                        ELSE IF Writing(q) /\ cur[q].wfile = RaceDst
                        THEN [cur[q] EXCEPT !.wfile = NoPath]
                        ELSE cur[q]])
       ELSE RaceStep(Remove(fs, TmpPath(RaceDst)),
                     [pc EXCEPT ![p] = "r_done"],
                     [cur EXCEPT ![p].err = "atomic rename"])

\* The process is stopped where it is; what it wrote stays.
RaceStop(p) ==
    /\ pc[p] \notin {"r_done", "r_stopped"}
    /\ RaceStep(fs, [pc EXCEPT ![p] = "r_stopped"], [cur EXCEPT ![p].err = "crashed"])

RaceSources == {<<1>>, <<2, 1>>, <<1, 2>>}

InitRace ==
    /\ hasLstat = TRUE
    /\ clock = 0
    /\ \E c1 \in RaceSources, c2 \in RaceSources,
          live \in {Absent, FileNode(<<1>>, 0, FileMode)},
          tmp \in {Absent, FileNode(<<2>>, 0, FileMode)} :
          /\ c1 # c2
          /\ fs = [EmptyFs EXCEPT
                     ![DirPath("claude")] = DirNode,
                     ![DirPath("store")] = DirNode,
                     ![DirPath("backup")] = DirNode,
                     ![ExtPath] = FileNode(ExtContent, 0, ForeignMode),
                     ![activeSettingsPath] = live,
                     ![TmpPath(activeSettingsPath)] = tmp,
                     ![storedSettingsPath(<<119>>)] = FileNode(c1, 0, FileMode),
                     ![storedSettingsPath(<<100>>)] = FileNode(c2, 0, FileMode)]
    /\ pc = [p \in Procs |-> "r_open"]
    /\ cur = [p \in Procs |-> [NoCall EXCEPT !.op = "copy", !.src = RaceSrc(p),
                                             !.dst = RaceDst]]
    /\ ret = NoRet
    /\ pre = fs
    /\ faults = 0
    /\ calls = 0
    /\ overwritten = {}

NextRace ==
    \E p \in Procs :
        \/ RaceOpenSrc(p)
        \/ RaceCreateTmp(p)
        \/ RaceWrite(p)
        \/ RaceCloseTmp(p)
        \/ RaceRename(p)
        \/ RaceStop(p)

SpecRace == InitRace /\ [][NextRace]_vars

---------------------------------------------------------------------------
(* SpecDur: 'prune-backups --older-than <value>': parseHumanDuration, then *)
(* PruneBackups with the duration it returned.  A duration is a number of  *)
(* seconds; int and time.Duration are IntBits wide (64 in the build) and   *)
(* wrap around as Go's integers do.                                        *)

IntBits == 18        \* width of int and time.Duration
DurDigits == 6       \* most digits in a value handed to --older-than

MaxInt == 2 ^ (IntBits - 1) - 1
MinInt == 0 - 2 ^ (IntBits - 1)

\* A result of integer arithmetic, as the machine keeps it.
Wrap(x) == ((x - MinInt) % (2 ^ IntBits)) + MinInt

\* a * b in machine integers, a >= 0.
RECURSIVE MulWrap(_, _)
MulWrap(a, b) ==
    IF a = 0 THEN 0
    ELSE Wrap(2 * MulWrap(a \div 2, b) + (a % 2) * b)

IsDigits(str) == str # <<>> /\ \A i \in 1..Len(str) : str[i] \in 48..57

RECURSIVE DigitsValue(_)
DigitsValue(str) ==
    IF str = <<>> THEN 0
    ELSE 10 * DigitsValue(SubSeq(str, 1, Len(str) - 1)) + (str[Len(str)] - 48)

Unsigned(str) == IF str # <<>> /\ str[1] \in {43, 45} THEN Tail(str) ELSE str

Negative(str) == str # <<>> /\ str[1] = 45

\* strconv.Atoi: an optional sign and decimal digits; an error when there
\* are none or the value does not fit an int.
Atoi(str) ==
    IF ~IsDigits(Unsigned(str)) THEN [ok |-> FALSE, v |-> 0]
    ELSE LET n == DigitsValue(Unsigned(str))
             v == IF Negative(str) THEN 0 - n ELSE n
         IN  IF v > MaxInt \/ v < MinInt THEN [ok |-> FALSE, v |-> 0]
             ELSE [ok |-> TRUE, v |-> v]

\* The seconds of the unit letters h, m, s.
UnitSeconds(u) == IF u = 104 THEN 3600 ELSE IF u = 109 THEN 60 ELSE 1

\* time.ParseDuration on a sign, digits and one unit letter: an error when
\* the digits are missing or the duration does not fit.
ParseDuration(str) ==
    LET body == Unsigned(SubSeq(str, 1, Len(str) - 1))
        unit == UnitSeconds(str[Len(str)])
    IN  IF ~IsDigits(body) THEN [ok |-> FALSE, v |-> 0]
        ELSE IF DigitsValue(body) > (MaxInt + 1) \div unit THEN [ok |-> FALSE, v |-> 0]
        ELSE LET d == DigitsValue(body) * unit IN
             IF Negative(str) THEN [ok |-> TRUE, v |-> 0 - d]
             ELSE IF d > MaxInt THEN [ok |-> FALSE, v |-> 0]
             ELSE [ok |-> TRUE, v |-> d]

\* parseDays: Atoi, d < 0 refused, time.Duration(d) * 24 * time.Hour.
parseDays(value) ==
    LET d == Atoi(value) IN
    IF ~d.ok THEN [ok |-> FALSE, v |-> 0, err |-> "invalid day duration"]
    ELSE IF d.v < 0 THEN [ok |-> FALSE, v |-> 0, err |-> "invalid day duration"]
    ELSE [ok |-> TRUE, v |-> MulWrap(d.v, 24 * UnitSeconds(104)), err |-> "ok"]

\* parseHumanDuration
parseHumanDuration(raw) ==
    LET value == TrimSpace(LowerString(raw)) IN
    IF value = <<>> THEN [ok |-> FALSE, v |-> 0, err |-> "duration cannot be empty"]
    ELSE IF HasSuffix(value, <<100>>)
    THEN parseDays(TrimSuffix(value, <<100>>))
    ELSE IF value[Len(value)] \in {104, 109, 115}
    THEN LET dur == ParseDuration(value) IN
         IF ~dur.ok THEN [ok |-> FALSE, v |-> 0, err |-> "invalid duration"]
         ELSE IF dur.v < 0
         THEN [ok |-> FALSE, v |-> 0, err |-> "duration cannot be negative"]
         ELSE [ok |-> TRUE, v |-> dur.v, err |-> "ok"]
    ELSE [ok |-> FALSE, v |-> 0, err |-> "unsupported duration format"]

\* RunE of the prune command with --older-than and --force: the duration is
\* parsed and handed to PruneBackups, or the error returned.
PruneCommand ==
    /\ pc = "d_parse"
    /\ UNCHANGED overwritten
    /\ LET duration == parseHumanDuration(cur.arg) IN
       IF ~duration.ok THEN Return(fs, duration.err, faults)
       ELSE Goto(fs, "p_readdir", [cur EXCEPT !.op = "prune", !.age = duration.v], faults)

RECURSIVE DigitStrings(_)
DigitStrings(n) ==
    IF n = 0 THEN {<<>>}
    ELSE DigitStrings(n - 1) \cup
         {Append(str, c) : str \in {t \in DigitStrings(n - 1) : Len(t) = n - 1},
                           c \in {48, 50, 57}}

\* The values of --older-than: blanks, a sign, digits 0, 2 and 9, and one of
\* d, D, h, m, s, x or no suffix.
DurInputs ==
    {pad \o sign \o digits \o suffix \o pad :
        pad \in {<<>>, <<32>>}, sign \in {<<>>, <<45>>, <<43>>},
        digits \in DigitStrings(DurDigits),
        suffix \in {<<>>, <<100>>, <<68>>, <<104>>, <<109>>, <<115>>, <<120>>}}

InitDur ==
    /\ hasLstat = TRUE
    /\ clock \in 0..MaxClock
    /\ fs = [EmptyFs EXCEPT
               ![DirPath("claude")] = DirNode,
               ![DirPath("store")] = DirNode,
               ![DirPath("backup")] = DirNode,
               ![ExtPath] = FileNode(ExtContent, 0, ForeignMode),
               ![BackupPath(HashOfContent(<<>>))] = FileNode(<<>>, 0, FileMode),
               ![BackupPath(HashOfContent(<<2, 1>>))] = FileNode(<<2, 1>>, MaxClock, FileMode)]
    /\ pc = "d_parse"
    /\ \E raw \in DurInputs : cur = [NoCall EXCEPT !.op = "prunecmd", !.arg = raw]
    /\ ret = NoRet
    /\ pre = fs
    /\ faults = 0
    /\ calls = 1
    /\ overwritten = {}

NextDur ==
    \/ PruneCommand
    \/ PruneReadDir
    \/ PruneEntry
    \/ PruneRemove

SpecDur == InitDur /\ [][NextDur]_vars

---------------------------------------------------------------------------
(* SpecOob: Use, Save, PruneBackups and ListEntries on a home where        *)
(* profile files are also deleted from outside, between calls.             *)

\* A profile file is removed by something other than the core.
DeleteProfile ==
    /\ pc = "idle"
    /\ \E n \in ProfileNames :
          /\ fs[storedSettingsPath(n)].kind = "file"
          /\ fs' = Remove(fs, storedSettingsPath(n))
    /\ UNCHANGED <<hasLstat, clock, pc, cur, ret, pre, faults, calls, overwritten>>

\* Save under the name ListEntries gives its unsaved entry.
CallSaveUnsaved ==
    Begin("m_init", [NoCall EXCEPT !.op = "save", !.arg = UnsavedName])

NextOob ==
    \/ NextMgr
    \/ CallSaveUnsaved
    \/ DeleteProfile
    \/ CallPruneBackups
    \/ PruneReadDir
    \/ PruneEntry
    \/ PruneRemove
    \/ CallListEntries
    \/ ListActive
    \/ ListHashLive
    \/ ListStoredStep
    \/ ListLoop

SpecOob == InitCore /\ [][NextOob]_vars

---------------------------------------------------------------------------
(* Claims.                                                                 *)

\* The call a state speaks about: the running one, or the one that has
\* just returned (pre is the filesystem as that call found it).
TheCall == IF pc = "idle" THEN ret ELSE cur

SameFile(a, b) == a.kind = b.kind /\ a.data = b.data

\* The backup entry that belongs to content c.
EntryFor(c) == BackupPath(HashOfContent(c))

\* C1: after a backup call that succeeded on a file of content B, the backup
\* directory holds one entry for B's fingerprint and its modification time
\* is the clock value of that call; the call added no other entry, and when
\* the entry was there already (an earlier call on content B) the set of
\* entries and the entry's content are as before: the call only refreshed
\* the time.
C1_Dedup ==
    (pc = "idle" /\ ret.op = "backup" /\ ret.res = "ok"
        /\ Stat(pre, ret.path).kind = "file") =>
        LET B == Stat(pre, ret.path).data
            e == EntryFor(B)
        IN  /\ fs[e].kind = "file"
            /\ fs[e].mtime = ret.now
            /\ BackupEntries(fs) = BackupEntries(pre) \cup {e}
            /\ Cardinality(BackupEntries(fs)) <= Cardinality(BackupEntries(pre)) + 1
            /\ pre[e].kind = "file" =>
                  /\ BackupEntries(fs) = BackupEntries(pre)
                  /\ fs[e].data = pre[e].data
            /\ \A p \in BackupEntries(pre) \ {e} : fs[p] = pre[p]

\* C1 witness: the second of two backup calls on content B, made at a later
\* clock value, found B's entry and left one entry carrying the later time.
C1_Witness ==
    /\ pc = "idle" /\ ret.op = "backup" /\ ret.res = "ok"
    /\ Stat(pre, ret.path).kind = "file"
    /\ pre[EntryFor(Stat(pre, ret.path).data)].kind = "file"
    /\ pre[EntryFor(Stat(pre, ret.path).data)].mtime < ret.now
    /\ fs[EntryFor(Stat(pre, ret.path).data)].mtime = ret.now
    /\ Cardinality(BackupEntries(fs)) = 1

\* C2: at every instant of copy_file(src, dst), also after a failure or a
\* stop of the process between two steps, dst holds its complete prior
\* content or the complete content of src, and a dst that existed is never
\* absent.
C2_AtomicReplace ==
    TheCall.op = "copy" =>
        LET now == Stat(fs, TheCall.dst)
            was == Stat(pre, TheCall.dst)
            from == Stat(pre, TheCall.src)
        IN  /\ \/ SameFile(now, was)
               \/ from.kind = "file" /\ now.kind = "file" /\ now.data = from.data
            /\ was.kind = "file" => now.kind = "file"

\* C2 witness: the process stopped in the middle of io.Copy; the temporary
\* file holds a strict prefix of src and dst still holds its prior content.
C2_Witness ==
    /\ pc = "idle" /\ ret.op = "copy" /\ ret.res = "crashed"
    /\ Stat(pre, ret.dst).kind = "file"
    /\ Stat(pre, ret.src).data = <<2, 1>>
    /\ fs[TmpPath(ret.dst)].kind = "file"
    /\ fs[TmpPath(ret.dst)].data = <<2>>
    /\ SameFile(Stat(fs, ret.dst), Stat(pre, ret.dst))

C4_NoContentLost ==
    \A c \in overwritten :
        /\ fs[EntryFor(c)].kind = "file"
        /\ fs[EntryFor(c)].data = c

\* The entries of the backup directory are as the call found them.
BackupDirUnchanged ==
    \A p \in AllPaths : (p.dir = "backup" /\ p.name # <<>>) => fs[p] = pre[p]

\* Every stored profile is as the call found it.
ProfilesUnchanged ==
    \A n \in ProfileNames : fs[storedSettingsPath(n)] = pre[storedSettingsPath(n)]

\* The stored profiles other than n are as the call found them.
OtherProfilesUnchanged(n) ==
    \A o \in ProfileNames \ {n} :
        fs[storedSettingsPath(o)] = pre[storedSettingsPath(o)]

C7_FailureLeavesSettings ==
    /\ (pc = "idle" /\ ret.op = "use" /\ ret.res \notin {"ok", "crashed"}) =>
          SameFile(Stat(fs, activeSettingsPath), Stat(pre, activeSettingsPath))
    /\ (pc = "idle" /\ ret.op = "save" /\ ret.res \notin {"ok", "crashed"}) =>
          \A n \in ProfileNames :
              SameFile(Stat(fs, storedSettingsPath(n)), Stat(pre, storedSettingsPath(n)))

\* What validate_path_safety is to answer for path p of filesystem f.
SafetyVerdict(f, p) == IF f[p].kind = "symlink" THEN "Symlink" ELSE "ok"

\* C8 as stated: validate_path_safety (when its lstat call answers) gives Ok
\* for a missing path, a file or a directory and an error for a link, and
\* Ok for every path without lstat; copy_file fails and changes nothing
\* when src or dst is a link.
C8_SymlinkRefusalAsStated ==
    /\ (pc = "idle" /\ ret.op = "vps") =>
          /\ fs = pre
          /\ ret.res \notin {"check path", "crashed"} =>
                ret.res = IF hasLstat THEN SafetyVerdict(pre, ret.path) ELSE "ok"
    /\ (pc = "idle" /\ ret.op = "copy"
          /\ (pre[ret.src].kind = "symlink" \/ pre[ret.dst].kind = "symlink")) =>
          /\ ret.res # "ok"
          /\ fs = pre

\* C8 (amended): validate_path_safety (when its lstat call answers) gives
\* Ok for a missing path, a file or a directory and an error for a link,
\* and Ok for every path without lstat; on a filesystem with lstat,
\* copy_file fails and changes nothing when src or dst is a link.
C8_SymlinkRefusal ==
    /\ (pc = "idle" /\ ret.op = "vps") =>
          /\ fs = pre
          /\ ret.res \notin {"check path", "crashed"} =>
                ret.res = IF hasLstat THEN SafetyVerdict(pre, ret.path) ELSE "ok"
    /\ (pc = "idle" /\ ret.op = "copy" /\ hasLstat
          /\ (pre[ret.src].kind = "symlink" \/ pre[ret.dst].kind = "symlink")) =>
          /\ ret.res # "ok"
          /\ fs = pre

\* C8 witness: copy_file refused a linked source while the directory of dst
\* did not exist yet, and did not create it.
C8_Witness ==
    /\ pc = "idle" /\ ret.op = "copy" /\ ret.res = "Symlink"
    /\ pre[ret.src].kind = "symlink"
    /\ pre[DirPath(ret.dst.dir)].kind = "absent"
    /\ fs = pre

\* The path Use / Save must not find a link at: the live path for Use, the
\* profile path for Save.
GuardedPath(c) ==
    IF c.op = "use" THEN activeSettingsPath
    ELSE storedSettingsPath(TrimSpace(c.arg))

\* Everything but directories is as the call found it.
FilesUnchanged ==
    \A p \in AllPaths : p.name # <<>> => fs[p] = pre[p]

\* C9 as stated: on a filesystem with lstat, a Use that finds a link at the
\* live path or a Save that finds a link at the profile path does not
\* succeed, and when it reports the link the backup directory, the active
\* pointer, the profiles, the live path and the link's target are as before
\* the call.
C9_SymlinkBeforeTouch ==
    (pc = "idle" /\ ret.op \in {"use", "save"} /\ hasLstat
        /\ NormalizeName(ret.arg).ok
        /\ pre[GuardedPath(ret)].kind = "symlink") =>
        /\ ret.res # "ok"
        /\ ret.res = "Symlink" => FilesUnchanged

\* The name with its surrounding whitespace taken off.
C10_Trimmed(s) ==
    LET keep == {i \in 1..Len(s) : ~IsSpace(s[i])} IN
    IF keep = {} THEN <<>>
    ELSE SubSeq(s, CHOOSE i \in keep : \A j \in keep : i <= j,
                   CHOOSE i \in keep : \A j \in keep : i >= j)

C10_Upper(t) == [i \in 1..Len(t) |-> IF t[i] >= 97 /\ t[i] <= 122 THEN t[i] - 32 ELSE t[i]]

\* CON, PRN, AUX, NUL, COM1..COM9, LPT1..LPT9
C10_Reserved ==
    {<<67, 79, 78>>, <<80, 82, 78>>, <<65, 85, 88>>, <<78, 85, 76>>}
    \cup {<<67, 79, 77, d>> : d \in 49..57}
    \cup {<<76, 80, 84, d>> : d \in 49..57}

\* The rules a trimmed name t matches, by their place in the fixed order.
C10_Matches(t) ==
    (IF t = <<>> THEN {1} ELSE {})
    \cup (IF t \in {<<46>>, <<46, 46>>} THEN {2} ELSE {})
    \cup (IF \E i \in 1..Len(t) : t[i] = 0 THEN {3} ELSE {})
    \cup (IF \E i \in 1..Len(t) : t[i] \notin 32..126 THEN {4} ELSE {})
    \cup (IF \E i \in 1..Len(t) : t[i] \in {60, 62, 58, 34, 47, 92, 124, 63, 42}
          THEN {5} ELSE {})
    \cup (IF C10_Upper(t) \in C10_Reserved THEN {6} ELSE {})

C10_Kinds ==
    <<"EmptyName", "DotNavigation", "NullByte", "NonPrintable", "InvalidChars",
      "ReservedName">>

---------------------------------------------------------------------------
(* filepath.Join as paths.go uses it: the parts of a path are split at     *)
(* '/', "" and "." are dropped and ".." takes the part before it away.     *)

ClaudeDirName == <<46, 99, 108, 97, 117, 100, 101>>                  \* ".claude"
StoreDirName == <<115, 119, 105, 116, 99, 104, 45, 115, 101, 116, 116, 105, 110, 103, 115>>

\* settingsStoreDir(): <home>/.claude/switch-settings, relative to home.
StoreDirParts == <<ClaudeDirName, StoreDirName>>

\* The parts of s between its separators.
RECURSIVE SplitPath(_, _, _)
SplitPath(s, part, acc) ==
    IF s = <<>> THEN Append(acc, part)
    ELSE IF Head(s) = 47 THEN SplitPath(Tail(s), <<>>, Append(acc, part))
    ELSE SplitPath(Tail(s), Append(part, Head(s)), acc)

\* filepath.Clean over the parts: lexical processing of "", "." and "..".
RECURSIVE CleanParts(_, _)
CleanParts(parts, acc) ==
    IF parts = <<>> THEN acc
    ELSE IF Head(parts) \in {<<>>, <<46>>} THEN CleanParts(Tail(parts), acc)
    ELSE IF Head(parts) = <<46, 46>>
         THEN CleanParts(Tail(parts),
                         IF acc = <<>> THEN acc ELSE SubSeq(acc, 1, Len(acc) - 1))
    ELSE CleanParts(Tail(parts), Append(acc, Head(parts)))

\* filepath.Join(m.settingsStoreDir(), name+".json")
JoinStoreDir(name) ==
    CleanParts(SplitPath(name \o JsonExt, <<>>, <<>>), StoreDirParts)


MaxPathLen == 4      \* longest name the path derivation is evaluated on

\* Names built from space, '.', '/' and 'w'.
PathInputs == UNION {[1..n -> {32, 46, 47, 119}] : n \in 0..MaxPathLen}

\* parts names a direct child of the settings-store directory.
DirectChild(parts) ==
    /\ Len(parts) = Len(StoreDirParts) + 1
    /\ SubSeq(parts, 1, Len(StoreDirParts)) = StoreDirParts

\* The path derived from an accepted input is <store>/<trimmed name>.json.
Contained(raw) ==
    NormalizeName(raw).ok =>
        /\ DirectChild(JoinStoreDir(NormalizeName(raw).name))
        /\ JoinStoreDir(NormalizeName(raw).name)[Len(StoreDirParts) + 1]
              = TrimSpace(raw) \o JsonExt

\* The results that tell of a failing filesystem call or a stopped process
\* before the name was looked at.
EarlyFailures == {"crashed", "create directory", "inspect settings.json"}

UseInspectFailures == {"crashed", "create directory", "inspect target settings"}

MissingProfileUse ==
    /\ pc = "idle"
    /\ ret.op = "use"
    /\ NormalizeName(ret.arg).ok
    /\ Stat(pre, storedSettingsPath(NormalizeName(ret.arg).name)).kind = "absent"

C12_UseMissingProfile ==
    MissingProfileUse =>
        /\ FilesUnchanged
        /\ BackupEntries(fs) = BackupEntries(pre)
        /\ ret.res \notin UseInspectFailures => ret.res = "NotFound"

\* C12 witness: use(" w\t") returned not-found with a live file and another
\* profile present, and nothing changed.
C12_Witness ==
    /\ MissingProfileUse
    /\ ret.arg = <<32, 119, 9>>
    /\ ret.res = "NotFound"
    /\ pre[activeSettingsPath].kind = "file"
    /\ pre[activeSettingsPath].data # <<>>
    /\ pre[storedSettingsPath(<<100>>)].kind = "file"
    /\ FilesUnchanged

\* C13 (Save needs a live file): a Save call that starts with no live file
\* changes no file and, unless a filesystem call failed before the existence
\* check, returns the nothing-to-save error whatever the target name is; a
\* name error is returned by Save only when the live file exists.
SaveInspectFailures == {"crashed", "create directory", "inspect settings.json"}

NameErrors == {"EmptyName", "DotNavigation", "NullByte", "NonPrintable", "InvalidChars", "ReservedName"}

SaveWithoutLive ==
    /\ pc = "idle"
    /\ ret.op = "save"
    /\ Stat(pre, activeSettingsPath).kind = "absent"

HashFailures == {"crashed", "check path", "Symlink", "stat file for hashing", "hash file"}

Fingerprint(n) == IF n.kind = "absent" THEN <<>> ELSE HashOfContent(n.data)

C14_Fingerprint ==
    /\ (pc = "idle" /\ ret.op = "hash") =>
          /\ fs = pre
          /\ ret.res \in HashFailures \cup {"ok"}
          /\ ret.res = "ok" => ret.hash = Fingerprint(Stat(pre, ret.path))
          /\ ret.res # "ok" => ret.hash = <<>>
          /\ ret.res = "Symlink" => (hasLstat /\ Lstat(pre, ret.path).kind = "symlink")
          /\ (hasLstat /\ Lstat(pre, ret.path).kind = "symlink") =>
                ret.res \in {"Symlink", "check path", "crashed"}
    /\ calls = 0 =>
          \A c1, c2 \in HashedContents :
              /\ HashOfContent(c1) # <<>>
              /\ HashOfContent(c1) = EmptyMarker <=> c1 = <<>>
              /\ HashOfContent(c1) = HashOfContent(c2) <=> c1 = c2

\* C14 witness: CalculateHash returned "empty" for a zero-length profile.
C14_Witness ==
    /\ pc = "idle"
    /\ ret.op = "hash"
    /\ ret.res = "ok"
    /\ ret.path = storedSettingsPath(<<119>>)
    /\ pre[ret.path].kind = "file"
    /\ pre[ret.path].data = <<>>
    /\ ret.hash = EmptyMarker

\* C15 (Empty files are backed up): a BackupFile call that succeeds on a file
\* of length zero leaves the entry empty.json with no content and the time of
\* the call, creates no other entry and changes nothing else; and whenever a
\* Use or Save call has changed a destination that was a file of length zero,
\* the entry empty.json exists with no content.
EmptyEntry == BackupPath(EmptyMarker)

WasEmptyFile(p) == Stat(pre, p).kind = "file" /\ Stat(pre, p).data = <<>>

C15_EmptyBackedUp ==
    /\ (pc = "idle" /\ ret.op = "backup" /\ ret.res = "ok" /\ WasEmptyFile(ret.path)) =>
          /\ fs[EmptyEntry].kind = "file"
          /\ fs[EmptyEntry].data = <<>>
          /\ fs[EmptyEntry].mtime = ret.now
          /\ \A p \in AllPaths \ {EmptyEntry} : fs[p] = pre[p]
    /\ (pc = "idle" /\ ret.op \in {"use", "save"} /\ ret.dst # NoPath
          /\ WasEmptyFile(ret.dst) /\ fs[ret.dst] # pre[ret.dst]) =>
          /\ fs[EmptyEntry].kind = "file"
          /\ fs[EmptyEntry].data = <<>>
          /\ BackupEntries(fs) \ BackupEntries(pre) \subseteq {EmptyEntry}

\* C15 witness: a second BackupFile of the zero-length live file, at a later
\* time, refreshed the entry empty.json that the first one had created.
C15_Witness ==
    /\ pc = "idle"
    /\ ret.op = "backup"
    /\ ret.res = "ok"
    /\ ret.path = activeSettingsPath
    /\ WasEmptyFile(ret.path)
    /\ pre[EmptyEntry].kind = "file"
    /\ pre[EmptyEntry].mtime < ret.now
    /\ fs[EmptyEntry].mtime = ret.now
    /\ fs[EmptyEntry].data = <<>>

\* C16 (Backup of a missing path): a BackupFile call on a path where nothing
\* exists changes nothing (no entry is created, no entry's content or time
\* changes) and returns nil unless the path check or the Stat itself failed.
MissingPathFailures == {"crashed", "check path", "stat file for hashing"}

BackupOfMissing ==
    /\ pc = "idle"
    /\ ret.op = "backup"
    /\ Lstat(pre, ret.path).kind = "absent"

C16_BackupMissingNoEffect ==
    BackupOfMissing =>
        /\ fs = pre
        /\ ret.res \notin MissingPathFailures => ret.res = "ok"

\* C16 witness: BackupFile of the missing live file returned nil while an
\* entry made by an earlier call was in the backup directory.
C16_Witness ==
    /\ BackupOfMissing
    /\ ret.path = activeSettingsPath
    /\ ret.res = "ok"
    /\ BackupEntries(pre) # {}
    /\ fs = pre

\* C17 (Different contents, different entries): two different contents have
\* different entry paths; a BackupFile call that succeeds on a file with
\* content c leaves an entry for c, which holds exactly c when the call
\* created it, and leaves every other entry (and every other path) as it was.
C17_DistinctEntries ==
    /\ calls = 0 =>
          \A c1, c2 \in HashedContents : c1 # c2 => EntryFor(c1) # EntryFor(c2)
    /\ (pc = "idle" /\ ret.op = "backup" /\ ret.res = "ok"
          /\ Stat(pre, ret.path).kind = "file") =>
          LET c == Stat(pre, ret.path).data IN
          /\ fs[EntryFor(c)].kind = "file"
          /\ pre[EntryFor(c)].kind = "absent" => fs[EntryFor(c)].data = c
          /\ \A p \in AllPaths \ {EntryFor(c)} : fs[p] = pre[p]

\* C17 witness: the live file and a profile hold different non-empty
\* contents; the profile's entry was there, the call created the live
\* file's entry, and now each entry holds its own source's content.
C17_Witness ==
    /\ pc = "idle"
    /\ ret.op = "backup"
    /\ ret.res = "ok"
    /\ ret.path = activeSettingsPath
    /\ pre[activeSettingsPath].kind = "file"
    /\ pre[storedSettingsPath(<<119>>)].kind = "file"
    /\ pre[activeSettingsPath].data = <<2, 1>>
    /\ pre[storedSettingsPath(<<119>>)].data = <<1>>
    /\ pre[EntryFor(<<2, 1>>)].kind = "absent"
    /\ pre[EntryFor(<<1>>)].data = <<1>>
    /\ fs[EntryFor(<<1>>)] = pre[EntryFor(<<1>>)]
    /\ fs[EntryFor(<<2, 1>>)].data = <<2, 1>>
    /\ BackupEntries(fs) = {EntryFor(<<1>>), EntryFor(<<2, 1>>)}

\* The paths directly in the backup directory.
InBackupDir == {p \in AllPaths : p.dir = "backup" /\ p.name # <<>>}

Cutoff == ret.now - ret.age

Deleted == {p \in AllPaths : pre[p].kind # "absent" /\ fs[p].kind = "absent"}

PruneReturned == pc = "idle" /\ ret.op = "prune"

\* C18 as stated: when PruneBackups succeeds, the paths it deleted are
\* exactly the regular files of the backup directory whose mtime is strictly
\* before T - d.
C18_PruneBoundaryAsStated ==
    (PruneReturned /\ ret.res = "ok") =>
        Deleted = {p \in InBackupDir : pre[p].kind = "file" /\ pre[p].mtime < Cutoff}

\* C18 (Prune boundary): PruneBackups called at time T with age d
\* deletes only entries of the backup directory that are not
\* directories and whose mtime (of the file a link names, for a link) is
\* strictly before T - d; everything it does not delete is unchanged; the
\* count it returns is the number it deleted, unless the process stopped;
\* when it succeeds it has deleted every such entry.
C18_PruneBoundary ==
    PruneReturned =>
        /\ ret.now <= clock
        /\ Deleted \subseteq {p \in InBackupDir :
                                pre[p].kind # "dir" /\ Stat(pre, p).mtime < Cutoff}
        /\ \A p \in AllPaths \ Deleted : fs[p] = pre[p]
        /\ ret.res # "crashed" => ret.deleted = Cardinality(Deleted)
        /\ ret.res = "ok" =>
              Deleted = {p \in InBackupDir : pre[p].kind \in {"file", "symlink"}
                                               /\ Stat(pre, p).mtime < Cutoff}

\* C18 witness: at T = 1 with d = 0 the entry of time 0 was deleted, the
\* entry of time 1 (equal to the cutoff) and the subdirectory were kept, and
\* 1 was returned.
C18_Witness ==
    /\ PruneReturned
    /\ ret.res = "ok"
    /\ ret.now = 1
    /\ ret.age = 0
    /\ pre[EntryFor(<<>>)].kind = "file"
    /\ pre[EntryFor(<<>>)].mtime = 0
    /\ pre[EntryFor(<<2, 1>>)].kind = "file"
    /\ pre[EntryFor(<<2, 1>>)].mtime = 1
    /\ pre[EntryFor(ExtContent)].kind = "absent"
    /\ pre[BackupSubdir].kind = "dir"
    /\ Deleted = {EntryFor(<<>>)}
    /\ fs[BackupSubdir].kind = "dir"
    /\ ret.deleted = 1

\* BackupFile has just returned nil for a file with content c, at time t.
BackedUpAt(c, t) ==
    /\ pc = "idle"
    /\ ret.op = "backup"
    /\ ret.res = "ok"
    /\ ret.now = t
    /\ Stat(pre, ret.path).kind = "file"
    /\ Stat(pre, ret.path).data = c

\* A PruneBackups call whose time T and age d have T - t <= d has left the
\* entry of c as it found it.
KeptByPrune(c, t) ==
    (PruneReturned /\ ret.now - t <= ret.age /\ pre[EntryFor(c)].kind # "absent") =>
        fs[EntryFor(c)] = pre[EntryFor(c)]

\* C19 (Recency): once a content c was backed up (its entry created or found
\* again) at time t, no later PruneBackups at a time T with age d where
\* T - t <= d deletes the entry of c.
C19_Recency ==
    \A c \in HashedContents : \A t \in 0..MaxClock :
        [](BackedUpAt(c, t) => [](KeptByPrune(c, t) /\ (EntryFor(c) \in BackupEntries(fs) => fs[EntryFor(c)].mtime >= t)))

\* C19 witness: BackupFile made the entry of <<1>> at time 1, and
\* PruneBackups with age 0 at time 1 deleted an older entry and kept this
\* one.
C19_Witness ==
    /\ PruneReturned
    /\ ret.res = "ok"
    /\ calls = 2
    /\ ret.now = 1
    /\ ret.age = 0
    /\ pre[activeSettingsPath].kind = "file"
    /\ pre[activeSettingsPath].data = <<1>>
    /\ pre[EntryFor(<<1>>)].kind = "file"
    /\ pre[EntryFor(<<1>>)].mtime = 1
    /\ fs[EntryFor(<<1>>)] = pre[EntryFor(<<1>>)]
    /\ Deleted = {EntryFor(<<2, 1>>)}

\* C20 (Active pointer round trip): GetActiveName changes nothing and returns
\* the trimmed content of the pointer file, "" when there is none (never set)
\* or when the read failed; after SetActiveName(n) returns nil the file holds
\* n, nothing else has changed, and the name GetActiveName reads from it is n
\* trimmed, "" for n = "", whatever the pointer was before.
PointerFile(f) == Stat(f, activeStatePath)

C20_ActiveRoundTrip ==
    /\ (pc = "idle" /\ ret.op = "getactive") => fs = pre
    /\ (pc = "idle" /\ ret.op = "getactive" /\ ret.res # "crashed") =>
          /\ ret.res = "ok"
          /\ PointerFile(pre).kind # "file" => ret.name = <<>>
          /\ (PointerFile(pre).kind = "file" /\ ~ret.dropped) =>
                ret.name = TrimSpace(PointerFile(pre).data)
          /\ ret.dropped => ret.name = <<>>
    /\ (pc = "idle" /\ ret.op = "setactive" /\ ret.res = "ok") =>
          /\ PointerFile(fs).kind = "file"
          /\ PointerFile(fs).data = ret.arg
          /\ ActiveName(fs) = TrimSpace(ret.arg)
          /\ ret.arg = <<>> => ActiveName(fs) = <<>>
          /\ \A p \in AllPaths \ {Resolve(pre, activeStatePath)} : fs[p] = pre[p]

\* C20 witness: SetActiveName(" w\t") had written the pointer, and
\* GetActiveName then returned "w".
C20_Witness ==
    /\ pc = "idle"
    /\ ret.op = "getactive"
    /\ ret.res = "ok"
    /\ calls = 2
    /\ pre[activeStatePath].kind = "file"
    /\ pre[activeStatePath].data = <<32, 119, 9>>
    /\ ret.name = <<119>>

\* A ListEntries call has returned its entries.
Listed == pc = "idle" /\ ret.op = "list" /\ ret.res = "ok"

\* The profile names in the store when the call began: what is left of the
\* names ending in ".json" that are not directories.
StoredSet ==
    {TrimSuffix(p.name, JsonExt) :
        p \in {q \in AllPaths : /\ q.dir = "store" /\ q.name # <<>>
                                /\ pre[q].kind \notin {"absent", "dir"}
                                /\ HasSuffix(q.name, JsonExt)}}

\* The fingerprint of the file at p when the call began.
FingerprintAt(p) ==
    IF Stat(pre, p).kind = "absent" THEN <<>> ELSE HashOfContent(Stat(pre, p).data)

\* The entries of the stored profiles, without the synthetic ones.
ProfileEntries == {i \in 1..Len(ret.out) : ret.out[i].prefix \in {"*", " "} /\ ~ret.out[i].plain}

\* C21 (active / modified rule): in the result of ListEntries every stored
\* profile has exactly one entry; the entry of a name other than the active
\* pointer is inactive; the entry of the name equal to the pointer is active
\* and carries "modified" exactly when the fingerprints of the live file and
\* of that profile are both non-empty and differ.
C21_ActiveModifiedRule ==
    Listed =>
        /\ ~ret.dropped => ret.name = ActiveName(pre)
        /\ \A n \in StoredSet :
              Cardinality({i \in ProfileEntries : ret.out[i].name = n}) = 1
        /\ \A i \in ProfileEntries :
              LET e == ret.out[i] IN
              /\ e.name \in StoredSet
              /\ e.name # ret.name => (e.prefix = " " /\ e.quals = <<>>)
              /\ e.name = ret.name =>
                    /\ e.prefix = "*"
                    /\ e.quals \in {<<"active">>, <<"active", "modified">>}
                    /\ e.quals = <<"active", "modified">> <=>
                          /\ FingerprintAt(activeSettingsPath) # <<>>
                          /\ FingerprintAt(storedSettingsPath(e.name)) # <<>>
                          /\ FingerprintAt(activeSettingsPath) #
                                FingerprintAt(storedSettingsPath(e.name))
        /\ Stat(pre, activeSettingsPath).kind = "absent" =>
              \A i \in 1..Len(ret.out) : ret.out[i].quals # <<"active", "modified">>

\* C21 witness: the pointer names w (with a newline after it), the live file
\* differs from profile w, and d is stored too: w is active and modified, d
\* is inactive.
C21_Witness ==
    /\ Listed
    /\ pre[activeStatePath].data = <<32, 119, 10>>
    /\ pre[activeSettingsPath].data = <<2, 1>>
    /\ pre[storedSettingsPath(<<119>>)].data = <<1>>
    /\ pre[StoreNameless].kind = "absent"
    /\ ret.out = <<[name |-> <<100>>, prefix |-> " ", plain |-> FALSE, quals |-> <<>>],
                   [name |-> <<119>>, prefix |-> "*", plain |-> FALSE,
                    quals |-> <<"active", "modified">>]>>

\* The pointer named a profile that was not in the store when the call began.
Dangling == ActiveName(pre) # <<>> /\ ActiveName(pre) \notin StoredSet

MissingEntry(n) ==
    [name |-> n, prefix |-> "!", plain |-> FALSE, quals |-> <<"active", "missing!">>]

\* C22 (Dangling pointer): with the pointer naming a profile that is not in
\* the store, ListEntries fails only when a filesystem call fails or the live
\* file is a refused link; its result holds one inactive entry per stored
\* profile and, last, exactly one entry for the pointer's name marked
\* active and missing; and a Use of a stored profile and a Save of the live
\* file, started in that state and met by no failure, return nil and leave
\* the pointer naming their profile.
C22_DanglingTolerated ==
    /\ (pc = "idle" /\ ret.op = "list" /\ Dangling /\ ret.res \notin {"ok", "crashed"}) =>
          \/ faults < MaxFaults
          \/ ret.check /\ hasLstat /\ Lstat(pre, activeSettingsPath).kind = "symlink"
    /\ (Listed /\ Dangling /\ ~ret.dropped) =>
          /\ Len(ret.out) = Cardinality(StoredSet) + 1
          /\ ret.out[Len(ret.out)] = MissingEntry(ActiveName(pre))
          /\ \A i \in 1..(Len(ret.out) - 1) :
                /\ ret.out[i].name \in StoredSet
                /\ ret.out[i].prefix = " "
                /\ ret.out[i].quals = <<>>
          /\ \A n \in StoredSet : \E i \in 1..(Len(ret.out) - 1) : ret.out[i].name = n
    /\ (pc = "idle" /\ ret.op = "use" /\ Dangling /\ faults = MaxFaults
          /\ ret.res # "crashed" /\ NormalizeName(ret.arg).ok
          /\ Lstat(pre, storedSettingsPath(NormalizeName(ret.arg).name)).kind = "file"
          /\ Lstat(pre, activeSettingsPath).kind # "symlink") =>
          /\ ret.res = "ok"
          /\ ActiveName(fs) = NormalizeName(ret.arg).name
    /\ (pc = "idle" /\ ret.op = "save" /\ Dangling /\ faults = MaxFaults
          /\ ret.res # "crashed" /\ NormalizeName(ret.arg).ok
          /\ Lstat(pre, activeSettingsPath).kind = "file"
          /\ Lstat(pre, storedSettingsPath(NormalizeName(ret.arg).name)).kind # "symlink") =>
          /\ ret.res = "ok"
          /\ ActiveName(fs) = NormalizeName(ret.arg).name

\* C22 witness: the pointer names g, the store holds d and w: ListEntries
\* returned d and w inactive and g active and missing.
C22_Witness ==
    /\ Listed
    /\ pre[activeStatePath].data = <<103>>
    /\ ret.out = <<[name |-> <<100>>, prefix |-> " ", plain |-> FALSE, quals |-> <<>>],
                   [name |-> <<119>>, prefix |-> " ", plain |-> FALSE, quals |-> <<>>],
                   MissingEntry(<<103>>)>>

\* A Use that succeeded from the dangling state (the second half of C22
\* happens).
C22_UseFromDangling ==
    /\ pc = "idle" /\ ret.op = "use" /\ ret.res = "ok" /\ Dangling
    /\ faults = MaxFaults

C22_SaveFromDangling ==
    /\ pc = "idle" /\ ret.op = "save" /\ ret.res = "ok" /\ Dangling
    /\ faults = MaxFaults

\* The result holds the entry of the unsaved live file.
HasUnsaved ==
    \E i \in 1..Len(ret.out) :
        ret.out[i] = [name |-> UnsavedName, prefix |-> "*", plain |-> TRUE, quals |-> <<>>]

\* C23 (Unsaved entry): the result of ListEntries holds the unsaved entry
\* exactly when the pointer is empty and the live file exists with content
\* that is not empty.
C23_UnsavedRule ==
    (Listed /\ ~ret.dropped) =>
        (HasUnsaved <=>
            /\ ActiveName(pre) = <<>>
            /\ Stat(pre, activeSettingsPath).kind = "file"
            /\ Stat(pre, activeSettingsPath).data # <<>>)

\* What the code does: the unsaved entry is there exactly when the pointer
\* is empty and the live file exists, with or without content.
C23_UnsavedWhenLiveExists ==
    (Listed /\ ~ret.dropped) =>
        (HasUnsaved <=>
            /\ ActiveName(pre) = <<>>
            /\ Stat(pre, activeSettingsPath).kind = "file")

\* The unsaved entry was returned for a live file of length zero.
C23_UnsavedForEmptyLive ==
    /\ Listed
    /\ pre[activeStatePath].kind = "absent"
    /\ pre[activeSettingsPath].kind = "file"
    /\ pre[activeSettingsPath].data = <<>>
    /\ HasUnsaved

\* A ListStored call has returned its names.
StoredListed == pc = "idle" /\ ret.op = "liststored" /\ ret.res = "ok"

\* The regular files of the store whose name ends in ".json".
RegularProfiles ==
    {q \in AllPaths : /\ q.dir = "store" /\ q.name # <<>>
                      /\ pre[q].kind = "file"
                      /\ HasSuffix(q.name, JsonExt)}

\* The entries of the store that are not directories and whose name ends
\* in ".json": regular files and links.
ListedProfiles ==
    {q \in AllPaths : /\ q.dir = "store" /\ q.name # <<>>
                      /\ pre[q].kind \in {"file", "symlink"}
                      /\ HasSuffix(q.name, JsonExt)}

StrictlyIncreasing(q) == \A i \in 1..(Len(q) - 1) : LexLess(q[i], q[i + 1])

Elements(q) == {q[i] : i \in 1..Len(q)}

WrittenFiles == {p \in AllPaths : fs[p].kind = "file" /\ fs[p] # pre[p]}

CreatedDirs == {p \in AllPaths : fs[p].kind = "dir" /\ pre[p].kind # "dir"}

\* C25 (Owner-only permissions): after every call of Use, Save or BackupFile
\* every directory the call created has mode 0700 and every file it wrote
\* has mode 0600.
C25_OwnerOnly ==
    (pc = "idle" /\ ret.op \in {"use", "save", "backup"}) =>
        /\ \A p \in CreatedDirs : fs[p].mode = DirMode
        /\ \A p \in WrittenFiles : fs[p].mode = FileMode

\* What the code does: directories it creates have mode 0700; a file it
\* wrote has mode 0600 unless the file it opened for writing was already
\* there (the pointer, or a leftover "<dst>.tmp" that then became dst), in
\* which case it has the mode that file had.
C25_ModeOfOpenedFile ==
    (pc = "idle" /\ ret.op \in {"use", "save", "backup"}) =>
        /\ \A p \in CreatedDirs : fs[p].mode = DirMode
        /\ \A p \in WrittenFiles :
              \/ fs[p].mode = FileMode
              \/ pre[p].kind = "file" /\ fs[p].mode = pre[p].mode
              \/ pre[TmpPath(p)].kind = "file" /\ fs[p].mode = pre[TmpPath(p)].mode

\* use("w") returned nil and the pointer it wrote has mode 0644.
C25_PointerKeepsMode ==
    /\ pc = "idle" /\ ret.op = "use" /\ ret.res = "ok"
    /\ fs[activeStatePath].data = <<119>>
    /\ fs[activeStatePath].mode = ForeignMode

\* C26 (Content-address integrity): whenever no call is running, also after
\* a BackupFile call that failed or was interrupted, every entry named by
\* the fingerprint of a content holds exactly that content.
C26_ContentAddressIntegrity ==
    pc = "idle" =>
        \A c \in HashedContents :
            fs[EntryFor(c)].kind = "file" => fs[EntryFor(c)].data = c

\* What the code does: an entry named by the fingerprint of c holds a
\* prefix of c.
RECURSIVE IsPrefix(_, _)
IsPrefix(a, b) ==
    IF a = <<>> THEN TRUE
    ELSE IF b = <<>> THEN FALSE
    ELSE Head(a) = Head(b) /\ IsPrefix(Tail(a), Tail(b))

C26_EntryIsPrefix ==
    \A c \in HashedContents :
        fs[EntryFor(c)].kind = "file" => IsPrefix(fs[EntryFor(c)].data, c)

\* A BackupFile call returned nil after re-timing an entry that does not
\* hold the content it is named after.
C26_RefreshedTruncated ==
    /\ pc = "idle" /\ ret.op = "backup" /\ ret.res = "ok"
    /\ Stat(pre, ret.path).kind = "file"
    /\ fs[EntryFor(Stat(pre, ret.path).data)].data # Stat(pre, ret.path).data
    /\ fs[EntryFor(Stat(pre, ret.path).data)].mtime = ret.now

LateCopyErrors == {"copy data", "close temp file", "atomic rename", "close source"}

\* C27 (Failure cleanup): when CopyFile returns an error raised after the
\* temporary file was created (data copy, close of the temporary file,
\* rename, close of the source), dst is exactly as it was before the call
\* and the temporary file does not exist.
C27_FailureCleansUp ==
    (pc = "idle" /\ ret.op = "copy" /\ ret.res \in LateCopyErrors) =>
        /\ fs[ret.dst] = pre[ret.dst]
        /\ fs[TmpPath(ret.dst)].kind = "absent"

\* What the code does: the three errors raised before the rename leave dst
\* as it was and remove the temporary file unless Remove fails as well; the
\* error of closing the source is returned with dst already replaced.
C27_CleanupByError ==
    (pc = "idle" /\ ret.op = "copy" /\ ret.res \in LateCopyErrors) =>
        IF ret.res = "close source"
        THEN /\ fs[ret.dst].kind = "file"
             /\ fs[ret.dst].data = Stat(pre, ret.src).data
             /\ fs[TmpPath(ret.dst)].kind = "absent"
        ELSE /\ fs[ret.dst] = pre[ret.dst]
             /\ ~ret.dropped => fs[TmpPath(ret.dst)].kind = "absent"

\* CopyFile returned the error of closing the source and dst holds new
\* content.
C27_ErrorAfterRename ==
    /\ pc = "idle" /\ ret.op = "copy" /\ ret.res = "close source"
    /\ pre[ret.dst].kind = "file"
    /\ fs[ret.dst].data # pre[ret.dst].data

\* CopyFile returned an error and the temporary file is still there.
C27_TmpLeftBehind ==
    /\ pc = "idle" /\ ret.op = "copy" /\ ret.res = "copy data"
    /\ ret.dropped
    /\ pre[TmpPath(ret.dst)].kind = "absent"
    /\ fs[TmpPath(ret.dst)].kind = "file"

\* The file every planted link names, as it is before any call.
ExtNode == FileNode(ExtContent, 0, ForeignMode)

\* C28 (No write through a link): during Use, Save and BackupFile nothing
\* is written, truncated or re-timed through a symbolic link at the live
\* path, a profile path, the temporary path of the copy, a backup entry
\* path or the active pointer path: the file the link names stays as it is.
C28_NoWriteThroughLink == fs[ExtPath] = ExtNode

UncheckedPlaces ==
    {TmpPath(activeSettingsPath), BackupPath(HashOfContent(<<2, 1>>)), activeStatePath}

\* What the code does: a step changes the file a link names only when the
\* link is at a path that is never checked (temporary path, backup entry,
\* active pointer); links at the live path and at a profile path are
\* refused before any write.
C28_OnlyUncheckedPlaces ==
    [][fs'[ExtPath] # fs[ExtPath] =>
          \E p \in UncheckedPlaces : fs[p].kind = "symlink"]_vars

\* The copy of Use wrote the profile through a link at settings.json.tmp.
C28_WrittenThroughTmp ==
    /\ pc = "idle" /\ ret.op = "use" /\ ret.res = "ok"
    /\ pre[TmpPath(activeSettingsPath)].kind = "symlink"
    /\ fs[ExtPath].data = <<1>>

\* SetActiveSettings wrote the name through a link at settings.json.active.
C28_WrittenThroughPointer ==
    /\ pc = "idle" /\ ret.op \in {"use", "save"} /\ ret.res = "ok"
    /\ pre[activeStatePath].kind = "symlink"
    /\ fs[ExtPath].data = ret.name

\* The backup re-timed the file a link at the entry path names.
C28_RetimedThroughEntry ==
    /\ pc = "idle" /\ ret.op = "backup" /\ ret.res = "ok"
    /\ pre[BackupPath(HashOfContent(<<2, 1>>))].kind = "symlink"
    /\ fs[ExtPath].data = ExtContent
    /\ fs[ExtPath].mtime = 1

ValidatePcs == {"u_norm", "s_norm"}
ExistsPcs == {"u_exists", "s_exists"}
BackupPcs ==
    {"b_stat", "b_hash", "b_open", "b_statbk", "b_touch", "b_create", "b_copy",
     "b_close", "b_cleanup", "b_fail", "b_chtimes", "b_srcclose"}
CopyPcs ==
    {"cf_valsrc", "cf_valdst", "cf_open", "cf_mkdir", "cf_tmp", "cf_copy",
     "cf_close", "cf_rename", "cf_cleanup", "cf_fail", "cf_srcclose"}
PointerPcs == {"a_open", "a_write", "a_close"}

\* The place of a step in the order the claim gives for Use and for Save.
StepRank(op, p) ==
    IF p = "m_init" THEN 0
    ELSE IF p \in ValidatePcs THEN (IF op = "use" THEN 1 ELSE 2)
    ELSE IF p \in ExistsPcs THEN (IF op = "use" THEN 2 ELSE 1)
    ELSE IF p \in BackupPcs THEN 3
    ELSE IF p \in CopyPcs THEN 4
    ELSE 5

\* The paths a step of the given rank may change.
MayChange(r, c) ==
    IF r = 0 THEN {DirPath(d) : d \in {"claude", "store", "backup"}}
    ELSE IF r \in {1, 2} THEN {}
    ELSE IF r = 3 THEN {q \in AllPaths : q.dir = "backup" /\ q.name # <<>>}
    ELSE IF r = 4 THEN {c.dst, TmpPath(c.dst), DirPath(c.dst.dir)}
    ELSE {activeStatePath}

\* One step of a running Use or Save: the next step is of the same rank or
\* of the next one, or the call returns; the step changes only what its
\* rank writes.
OrderedStep ==
    (pc # "idle" /\ cur.op \in {"use", "save"}) =>
        /\ pc' # "idle" =>
               StepRank(cur.op, pc') \in {StepRank(cur.op, pc), StepRank(cur.op, pc) + 1}
        /\ \A q \in AllPaths \ MayChange(StepRank(cur.op, pc), cur) : fs'[q] = fs[q]

C30_PointerNeverTorn ==
    (pc = "idle" /\ ret.op \in {"use", "save"} /\ ret.res # "ok") =>
        \/ fs[activeStatePath] = pre[activeStatePath]
        \/ /\ fs[activeStatePath].kind = "file"
           /\ fs[activeStatePath].data = ret.name

\* What the code does: at every instant of a Use or Save the pointer is as
\* before the call, or an empty file, or a file holding the new name.
C30_PointerPreEmptyOrNew ==
    TheCall.op \in {"use", "save"} =>
        \/ fs[activeStatePath] = pre[activeStatePath]
        \/ /\ fs[activeStatePath].kind = "file"
           /\ fs[activeStatePath].data \in {<<>>, TheCall.name}

\* Use returned the error of the pointer update, without any interruption,
\* and the pointer that named "d" is an empty file.
C30_EmptyPointerAfterError ==
    /\ pc = "idle" /\ ret.op = "use" /\ ret.res = "update active settings"
    /\ pre[activeStatePath].kind = "file"
    /\ pre[activeStatePath].data = <<100>>
    /\ fs[activeStatePath].kind = "file"
    /\ fs[activeStatePath].data = <<>>

\* C31 (Failure propagation): a call during which a filesystem call failed
\* does not return success: the first call of a behaviour that has used up
\* a failure returns an error.
C31_FailurePropagated ==
    (pc = "idle" /\ calls = 1 /\ faults < MaxFaults) => ret.res # "ok"

\* What the code does: every operation but GetActiveName returns an error
\* when one of its filesystem calls failed.
C31_PropagatedButRead ==
    (pc = "idle" /\ calls = 1 /\ faults < MaxFaults /\ ret.op # "getactive") =>
        ret.res # "ok"

\* GetActiveName answered "" and no error although the pointer file holds a
\* name: its ReadFile failed.
C31_ReadFailureAsEmpty ==
    /\ pc = "idle" /\ ret.op = "getactive" /\ ret.res = "ok"
    /\ faults < MaxFaults
    /\ PointerFile(pre).kind = "file"
    /\ TrimSpace(PointerFile(pre).data) # <<>>
    /\ ret.name = <<>>

ReadOnlyOps == {"prune", "list", "validate", "hash", "backup"}

ProfilePaths == {storedSettingsPath(n) : n \in ProfileNames}

\* What one step of the running call may do to the pointer, the live file
\* and the profiles.
FrameStep ==
    /\ fs'[activeStatePath] # fs[activeStatePath] =>
          cur.op \in {"use", "save"} /\ pc \in PointerPcs
    /\ cur.op \in ReadOnlyOps =>
          \A q \in ProfilePaths \cup {activeSettingsPath, activeStatePath} : fs'[q] = fs[q]
    /\ cur.op = "use" => \A q \in ProfilePaths : fs'[q] = fs[q]
    /\ cur.op = "save" => \A q \in ProfilePaths \ {cur.dst} : fs'[q] = fs[q]
    /\ \A q \in ProfilePaths : fs[q].kind = "file" => fs'[q].kind = "file"

\* C32 (Frame conditions): the pointer is changed only by the last step of
\* Use or Save (SetActiveSettings); prune, list, validate, fingerprint and
\* backup leave the pointer, the live file and every profile as they are;
\* Use changes no profile, Save none but its target; no step removes a
\* profile.
C32_Frame == [][FrameStep]_vars

\* C32 witness: a Save onto an existing profile returned nil; the target
\* holds the live content, the other profile is untouched, the pointer
\* names the target.
C32_Witness ==
    /\ pc = "idle" /\ ret.op = "save" /\ ret.res = "ok" /\ ret.name = <<119>>
    /\ pre[storedSettingsPath(<<119>>)].kind = "file"
    /\ pre[storedSettingsPath(<<100>>)].kind = "file"
    /\ pre[activeStatePath].data = <<100>>
    /\ fs[storedSettingsPath(<<119>>)].data = <<2, 1>>
    /\ fs[storedSettingsPath(<<100>>)] = pre[storedSettingsPath(<<100>>)]
    /\ fs[activeStatePath].data = <<119>>

\* The call of Use or Save is past normalizeSettingsName.
Normalized == TheCall.op \in {"use", "save"} /\ TheCall.dst # NoPath

C33_TrimmedBothSides ==
    /\ pc = "idle" /\ ret.op = "normalize" /\ ret.res = "ok"
    /\ ret.arg = <<9, 111, 32, 160>>
    /\ ret.name = <<111>>

\* The four things the claim lets the list depend on, read from the
\* filesystem as the call found it.
ListInputs ==
    LET a == IF Stat(pre, activeStatePath).kind = "file"
             THEN TrimSpace(Stat(pre, activeStatePath).data) ELSE <<>>
    IN  [active |-> a,
         names |-> StoredSet,
         live |-> FingerprintAt(activeSettingsPath),
         stored |-> IF a \in StoredSet
                    THEN FingerprintAt(storedSettingsPath(a)) ELSE <<>>]

\* The one list that goes with the inputs in: the stored names in
\* increasing order, each inactive unless it is the pointer's name, then
\* the synthetic entry if there is one.
ListFor(in, out) ==
    LET k == Cardinality(in.names)
        changed == in.live # <<>> /\ in.stored # <<>> /\ in.live # in.stored
        synth == IF in.active # <<>> /\ in.active \notin in.names
                 THEN <<[name |-> in.active, prefix |-> "!", plain |-> FALSE,
                         quals |-> <<"active", "missing!">>]>>
                 ELSE IF in.active = <<>> /\ in.live # <<>>
                 THEN <<[name |-> UnsavedName, prefix |-> "*", plain |-> TRUE,
                         quals |-> <<>>]>>
                 ELSE <<>>
    IN  /\ Len(out) = k + Len(synth)
        /\ {out[i].name : i \in 1..k} = in.names
        /\ \A i \in 1..(k - 1) : LexLess(out[i].name, out[i + 1].name)
        /\ \A i \in 1..k :
              out[i] =
                IF out[i].name = in.active
                THEN [name |-> out[i].name, prefix |-> "*", plain |-> FALSE,
                      quals |-> IF changed THEN <<"active", "modified">>
                                ELSE <<"active">>]
                ELSE [name |-> out[i].name, prefix |-> " ", plain |-> FALSE,
                      quals |-> <<>>]
        /\ SubSeq(out, k + 1, Len(out)) = synth

\* C34 (The list is a function of four inputs): the entries ListEntries
\* returns are the one list fixed by the pointer's name, the set of stored
\* names, the fingerprint of the live file and the fingerprint of the
\* profile the pointer names; nothing else in the filesystem - contents of
\* other profiles, backup entries, modification times - has a say.
C34_FunctionOfFourInputs ==
    (Listed /\ ~ret.dropped) => ListFor(ListInputs, ret.out)

\* C34 witness: a list taken after a Use or Save that wrote at a later
\* clock value and left a backup entry behind: the pointer's profile is
\* active and not modified although its modification time differs from
\* the live file's, the other profile is inactive.
C34_Witness ==
    /\ Listed /\ ~ret.dropped
    /\ ListInputs.active = <<119>>
    /\ pre[activeSettingsPath].mtime # pre[storedSettingsPath(<<119>>)].mtime
    /\ pre[storedSettingsPath(<<100>>)].kind = "file"
    /\ Cardinality(BackupEntries(pre)) >= 2
    /\ ret.out = <<[name |-> <<100>>, prefix |-> " ", plain |-> FALSE, quals |-> <<>>],
                   [name |-> <<119>>, prefix |-> "*", plain |-> FALSE,
                    quals |-> <<"active">>]>>

\* The entries of a list that are not 'inactive'.
NotInactive(out) == {i \in 1..Len(out) : out[i].prefix # " "}

\* The entries added after the loop: the missing and the unsaved one.
SyntheticEntries(out) == {i \in 1..Len(out) : out[i].prefix = "!" \/ out[i].plain}

\* Sorted profile entries, a synthetic entry last, at most one entry that is
\* not 'inactive', every entry in one of the five states.
SortedOneActive(out) ==
    /\ \A i \in SyntheticEntries(out) : i = Len(out)
    /\ \A i \in 1..(Len(out) - 1) :
          (i + 1) \notin SyntheticEntries(out) => LexLess(out[i].name, out[i + 1].name)
    /\ Cardinality(NotInactive(out)) <= 1
    /\ \A i \in 1..Len(out) :
          <<out[i].prefix, out[i].plain, out[i].quals>> \in
             {<<" ", FALSE, <<>> >>,
              <<"*", FALSE, <<"active">> >>,
              <<"*", FALSE, <<"active", "modified">> >>,
              <<"!", FALSE, <<"active", "missing!">> >>,
              <<"*", TRUE, <<>> >>}

\* C35 (One state per name): in the list ListEntries returns no name is in
\* two entries; the entries of the stored profiles come first, in strictly
\* increasing order of name, a synthetic entry is the last one; at most one
\* entry is not 'inactive' - whatever Use, Save, PruneBackups and the
\* deletion of profile files from outside did before.
C35_OneStatePerName ==
    Listed =>
        /\ \A i, j \in 1..Len(ret.out) : i # j => ret.out[i].name # ret.out[j].name
        /\ SortedOneActive(ret.out)

\* C35, the part that holds: order, the place of the synthetic entry and the
\* single entry that is not 'inactive'.
C35_SortedOneActive == Listed => SortedOneActive(ret.out)

\* C35: a Save under the name of the unsaved entry failed after the profile
\* was written and before the pointer was; the list has the name twice.
C35_NameTwice ==
    /\ Listed
    /\ Len(ret.out) = 2
    /\ ret.out[1].name = UnsavedName /\ ret.out[1].prefix = " "
    /\ ret.out[2].name = UnsavedName /\ ret.out[2].plain

\* C35: the profile the pointer names was deleted from outside; the
\* list has the remaining profile as inactive and then the missing one.
C35_MissingLast ==
    /\ Listed
    /\ pre[storedSettingsPath(<<100>>)].kind = "absent"
    /\ pre[activeStatePath].data = <<100>>
    /\ ret.out = <<[name |-> <<119>>, prefix |-> " ", plain |-> FALSE, quals |-> <<>>],
                   [name |-> <<100>>, prefix |-> "!", plain |-> FALSE,
                    quals |-> <<"active", "missing!">>]>>

\* The pointer of f is unset, or holds a valid name whose profile is stored.
PointerSound(f) ==
    LET n == ActiveName(f) IN
    \/ n = <<>>
    \/ /\ ValidateName(n) = "Ok"
       /\ storedSettingsPath(n) \in AllPaths
       /\ Stat(f, storedSettingsPath(n)).kind = "file"

C36_EmptiedByFailure ==
    /\ pc = "idle" /\ ret.op = "use" /\ ret.res = "update active settings"
    /\ ActiveName(pre) # <<>>
    /\ ActiveName(fs) = <<>>

\* C37 (List after Use or Save): the list taken right after a successful
\* Use(n) or Save(n), the pointer read, has the trimmed name as active
\* without 'modified', no active+missing entry and no unsaved entry - also
\* when the profile is of zero length.
C37_ActiveAfterSwitch ==
    (Listed /\ ret.prev.op \in {"use", "save"} /\ ~ret.dropped) =>
        /\ \E i \in 1..Len(ret.out) :
              ret.out[i] = [name |-> TrimSpace(ret.arg), prefix |-> "*",
                            plain |-> FALSE, quals |-> <<"active">>]
        /\ \A i \in 1..Len(ret.out) :
              /\ ret.out[i].prefix # "!"
              /\ ~ret.out[i].plain
              /\ ret.out[i].quals \in {<<>>, <<"active">>}
        /\ Cardinality(NotInactive(ret.out)) = 1

\* C37 witness: the list after a Use of a profile of zero length.
C37_Witness ==
    /\ Listed /\ ret.prev.op = "use" /\ ~ret.dropped
    /\ ret.arg = <<100>>
    /\ pre[storedSettingsPath(<<100>>)].data = <<>>
    /\ pre[activeSettingsPath].data = <<>>
    /\ ret.prev.live # <<>>

\* C37: the list after a Save, two profiles stored.
C37_AfterSave ==
    /\ Listed /\ ret.prev.op = "save" /\ ~ret.dropped
    /\ Len(ret.out) = 2

\* C38 (Use idempotent, Save/Use round trip): a successful Use(n) right
\* after a successful Use(n) leaves the content of the live file, the
\* pointer and every profile as the first one left them; a successful
\* Use(n) right after a successful Save(n) leaves the live file with the
\* content it had before the Save.
C38_UseIdempotent ==
    (pc = "idle" /\ ret.op = "use" /\ ret.res = "ok") =>
        /\ ret.prev.op = "use" =>
              /\ Stat(fs, activeSettingsPath).kind = Stat(pre, activeSettingsPath).kind
              /\ Stat(fs, activeSettingsPath).data = Stat(pre, activeSettingsPath).data
              /\ Stat(fs, activeStatePath).kind = Stat(pre, activeStatePath).kind
              /\ Stat(fs, activeStatePath).data = Stat(pre, activeStatePath).data
              /\ \A p \in AllPaths : p.dir = "store" => fs[p] = pre[p]
        /\ ret.prev.op = "save" =>
              /\ Stat(fs, activeSettingsPath).kind = "file"
              /\ Stat(fs, activeSettingsPath).data = ret.prev.live
              /\ Stat(fs, activeSettingsPath).data = Stat(pre, activeSettingsPath).data

\* C38 witness: the second Use of a profile whose content the first Use put
\* in place of another live file.
C38_Witness ==
    /\ pc = "idle" /\ ret.op = "use" /\ ret.res = "ok" /\ ret.prev.op = "use"
    /\ ret.prev.live # Stat(fs, activeSettingsPath).data
    /\ Stat(fs, activeSettingsPath).data # <<>>

\* C38: Use after a Save that wrote a profile which held something else.
C38_SaveThenUse ==
    /\ pc = "idle" /\ ret.op = "use" /\ ret.res = "ok" /\ ret.prev.op = "save"
    /\ ret.prev.live = <<2, 1>>
    /\ ret.name = <<119>>

\* The contents a CopyFile to RaceDst may leave there: what was there, or
\* one of the sources.
CleanContents == {pre[RaceDst].data} \cup {pre[RaceSrc(p)].data : p \in Procs}

\* C39 (Temporary files unique): two executions of CopyFile to the same
\* destination never have the same temporary file open for writing, and the
\* destination never holds bytes that are a mixture of two sources.
C39_UniqueTmpNoMixture ==
    /\ \A p, q \in Procs :
          (p # q /\ Writing(p) /\ Writing(q)) => cur[p].wfile # cur[q].wfile
    /\ fs[RaceDst].data \in CleanContents
    /\ \A p \in Procs :
          (pc[p] = "r_done" /\ cur[p].err = "ok" /\ \A q \in Procs : pc[q] = "r_done") =>
              \E q \in Procs : fs[RaceDst].data = pre[RaceSrc(q)].data

\* C39, what holds: as long as no CopyFile opened the temporary file while
\* the other one had it open or ready to rename - the calls ran one after
\* the other, a stopped one included - the destination holds what it held
\* or the whole of one source, and a leftover temporary file is truncated
\* before it is written.
C39_CleanWhenNotConcurrent ==
    (\A p \in Procs : ~cur[p].dropped) =>
        /\ fs[RaceDst].data \in CleanContents
        /\ \A p \in Procs :
              (pc[p] = "r_done" /\ cur[p].err = "ok" /\ \A q \in Procs : ~Writing(q)) =>
                  \E q \in Procs : fs[RaceDst].data = pre[RaceSrc(q)].data

\* C39: both copies have returned, one of them with success, and the
\* destination holds neither source nor what it held.
C39_Mixed ==
    /\ \A p \in Procs : pc[p] = "r_done"
    /\ \E p \in Procs : cur[p].err = "ok"
    /\ fs[RaceDst].data \notin CleanContents

\* C39: a copy ran to its end after the other one was stopped with the
\* temporary file written.
C39_AfterInterrupted ==
    /\ pc[1] = "r_stopped" /\ cur[1].off > 0
    /\ pc[2] = "r_done" /\ cur[2].err = "ok"
    /\ ~cur[1].dropped /\ ~cur[2].dropped
    /\ fs[RaceDst].data = pre[RaceSrc(2)].data

\* The call is PruneBackups, started by the prune command.
Pruning == (pc \in {"p_readdir", "p_entry", "p_remove"}) \/ PruneReturned

\* The day count of a value of the form <digits>d, -1 for any other value.
DayCount(raw) ==
    LET value == TrimSpace(LowerString(raw)) IN
    IF HasSuffix(value, <<100>>) /\ Atoi(TrimSuffix(value, <<100>>)).ok
    THEN Atoi(TrimSuffix(value, <<100>>)).v
    ELSE 0 - 1

\* C40 (Retention never negative): whatever string --older-than gets, the
\* duration the prune command hands to PruneBackups is not negative, and
\* PruneBackups deletes no entry whose mtime is the current time or later.
C40_RetentionNeverNegative ==
    /\ Pruning => TheCall.age >= 0
    /\ (PruneReturned /\ ret.res = "ok") => \A p \in Deleted : pre[p].mtime < ret.now

\* C40, what holds: the duration is negative only for a day count whose
\* product with 24h does not fit; for h, m and s values and for day counts
\* that fit it is the value itself.
C40_NegativeOnlyByOverflow ==
    Pruning =>
        LET d == DayCount(TheCall.arg) IN
        /\ TheCall.age < 0 => d > MaxInt \div (24 * UnitSeconds(104))
        /\ (d >= 0 /\ d <= MaxInt \div (24 * UnitSeconds(104))) =>
               TheCall.age = d * 24 * UnitSeconds(104)

\* C40: a day count that wrapped to a negative duration put the cutoff
\* after the current time; the entry written at the current time is gone.
C40_FutureCutoff ==
    /\ PruneReturned /\ ret.res = "ok"
    /\ ret.age < 0
    /\ \E p \in Deleted : pre[p].mtime >= ret.now

=============================================================================
